---- MODULE Spec2Model ----
(***************************************************************************)
(* Internal Sales Admin Panel: the React front end (pages, order modal,    *)
(* service layer) together with the REST back end it talks to.             *)
(*                                                                         *)
(* The front end is translated from src/frontend.  The back end (FastAPI)  *)
(* is not part of the sources at hand; its handlers are written from the   *)
(* specification's data model and rules (spec.md sections 3, 6, 7, 8) and  *)
(* are marked "back end" below.                                            *)
(***************************************************************************)
EXTENDS Integers, Sequences, FiniteSets, TLC

(* ------------------------------ bounds -------------------------------- *)
\* rows stored when the session starts, and rows one run may add to the
\* customers and products tables
NumCustomers == 1
NumProducts == 2
MaxCreated == 1
MaxPrice == 2
MaxOrders == 1

CustomerIds == 1..(NumCustomers + MaxCreated)
ProductIds == 1..(NumProducts + MaxCreated)
Prices == 1..MaxPrice
OrderIds == 1..MaxOrders

Statuses == {"draft", "confirmed", "completed"}

VARIABLES
    customers,      \* back end: ids of the stored customers
    products,       \* back end: product id -> [exists, price, is_active]
    orders,         \* back end: order id -> stored order (domain = stored orders)
    nextOrderId,    \* back end: next primary key of the orders table
    nextId,         \* back end: next primary key of the customers / products table
    http,           \* the last HTTP exchange as the service layer saw it
    route,          \* front end: the route the router shows, [page, id]
    history,        \* front end: the history stack under the current entry
    detail,         \* front end: state of the mounted CustomerDetail / ProductDetail
    modal,          \* front end: state of the mounted CreateOrderModal
    list,           \* front end: state of the mounted list page
    bar,            \* front end: state of the SearchBar of the list page
    dash,           \* front end: state of the Dashboard page
    cache,          \* front end: the queries held by the QueryClient, by key
    unobserved,     \* front end: requests and timers no mounted observer follows
    alerted         \* front end: the last message shown with window.alert

backend == <<customers, products, orders, nextOrderId, nextId>>
ui == <<route, history, detail, modal, list, bar, dash, cache, unobserved, alerted>>
vars == <<customers, products, orders, nextOrderId, nextId, http, route, history,
          detail, modal, list, bar, dash, cache, unobserved, alerted>>

(* --------------------------- pure helpers ------------------------------ *)
RECURSIVE SumUnitPrice(_)
SumUnitPrice(items) ==
    IF items = {} THEN 0
    ELSE LET it == CHOOSE x \in items : TRUE
         IN it.unit_price + SumUnitPrice(items \ {it})

\* the linear chain draft -> confirmed -> completed
NextStatus(s) ==
    CASE s = "draft" -> "confirmed"
      [] s = "confirmed" -> "completed"
      [] OTHER -> "none"

ItemProducts(o) == {it.product_id : it \in orders[o].items}

\* orders that reference a customer / a product
OrdersOfCustomer(c) == {o \in DOMAIN orders : orders[o].customer_id = c}
OrdersOfProduct(p) == {o \in DOMAIN orders : p \in ItemProducts(o)}

\* items freshly priced from the products table
FreezeItems(ps) == {[product_id |-> p, unit_price |-> products[p].price] : p \in ps}

\* items of an edited order: a product already on the order either keeps the
\* price frozen earlier (keep) or is priced again, a new product is priced now
EditedItems(o, ps, keep) ==
    {[product_id |-> p,
      unit_price |-> IF keep /\ p \in ItemProducts(o)
                     THEN (CHOOSE it \in orders[o].items : it.product_id = p).unit_price
                     ELSE products[p].price] : p \in ps}

Range(seq) == {seq[i] : i \in 1..Len(seq)}

RemoveAt(seq, i) == SubSeq(seq, 1, i - 1) \o SubSeq(seq, i + 1, Len(seq))

(* ------------------------ service layer (src) -------------------------- *)
\* every service function wraps the axios call in try/catch and rethrows
\* `Failed to ...`: the caller sees either the data or an Error
\* the catch block returns instead of rethrowing
ServiceResultSwallowed(op, id, arg, ok) ==
    [op |-> op, id |-> id, arg |-> arg, threw |-> FALSE]

ServiceResult(op, id, arg, ok) ==
    [op |-> op, id |-> id, arg |-> arg, threw |-> ~ok]

NoExchange == [op |-> "none", id |-> 0, arg |-> "none", threw |-> FALSE]

(* ----------------------------- back end -------------------------------- *)
\* Dashboard: "Active Engagements = Confirmed + Completed", drafts are inactive
ActiveOrder(o) == orders[o].status \in {"confirmed", "completed"}

ProductsExist(ps) == \A p \in ps : products[p].exists

DeletedProduct == [exists |-> FALSE, price |-> 1, is_active |-> FALSE]

\* POST /orders: the customer and every product must be stored, items non-empty
CreateOrderAccepted(c, ps) ==
    /\ c \in customers
    /\ ps # {}
    /\ ProductsExist(ps)

\* the row POST /orders inserts: status draft, prices frozen, total summed
NewOrder(c, ps) ==
    [customer_id |-> c,
     status |-> "draft",
     items |-> FreezeItems(ps),
     total_amount |-> SumUnitPrice(FreezeItems(ps))]

BackendCreateOrder(c, ps) ==
    /\ orders' = [o \in DOMAIN orders \cup {nextOrderId} |->
                    IF o = nextOrderId THEN NewOrder(c, ps) ELSE orders[o]]
    /\ nextOrderId' = nextOrderId + 1
    /\ UNCHANGED <<customers, products, nextId>>

\* any forward status is accepted
StatusAcceptedForward(o, s) ==
    /\ o \in DOMAIN orders
    /\ s # orders[o].status
    /\ orders[o].status # "completed" /\ s # "draft"

\* PATCH /orders/{id} {status}: only the immediate next status is accepted
StatusAccepted(o, s) == o \in DOMAIN orders /\ s = NextStatus(orders[o].status)

BackendUpdateStatus(o, s) ==
    /\ orders' = [orders EXCEPT ![o].status = s]
    /\ UNCHANGED <<customers, products, nextOrderId, nextId>>

\* PATCH /orders/{id} {items}: a stored order, items non-empty and stored.
\* spec.md has no words on the items of an order that left draft and the
\* handler is not part of the sources: `draftOnly` is whether the back end
\* refuses them
ItemsAccepted(o, ps, draftOnly) ==
    /\ o \in DOMAIN orders
    /\ draftOnly => orders[o].status = "draft"
    /\ ps # {}
    /\ ProductsExist(ps)

\* the items are replaced and the stored total is left as it was
BackendUpdateItemsStaleTotal(o, ps, keep) ==
    /\ orders' = [orders EXCEPT ![o].items = EditedItems(o, ps, keep)]
    /\ UNCHANGED <<customers, products, nextOrderId, nextId>>

BackendUpdateItems(o, ps, keep) ==
    /\ orders' = [orders EXCEPT
                    ![o].items = EditedItems(o, ps, keep),
                    ![o].total_amount = SumUnitPrice(EditedItems(o, ps, keep))]
    /\ UNCHANGED <<customers, products, nextOrderId, nextId>>

\* DELETE /orders/{id}: only a draft can be cancelled
OrderDeletable(o) == o \in DOMAIN orders /\ orders[o].status = "draft"

BackendDeleteOrder(o) ==
    /\ orders' = [x \in DOMAIN orders \ {o} |-> orders[x]]
    /\ UNCHANGED <<customers, products, nextOrderId, nextId>>

\* POST /products: the row is inserted under the next primary key
BackendCreateProduct(price, active) ==
    /\ products' = [products EXCEPT ![nextId.product] =
                      [exists |-> TRUE, price |-> price, is_active |-> active]]
    /\ nextId' = [nextId EXCEPT !.product = @ + 1]
    /\ UNCHANGED <<customers, orders, nextOrderId>>

\* POST /customers: the row is inserted under the next primary key
BackendCreateCustomer ==
    /\ customers' = customers \cup {nextId.customer}
    /\ nextId' = [nextId EXCEPT !.customer = @ + 1]
    /\ UNCHANGED <<products, orders, nextOrderId>>

\* PATCH /products/{id} {price, is_active}
ProductUpdatable(p) == products[p].exists

\* the new price is also written to the items of the orders still in draft
BackendUpdateProductRepricing(p, price, active) ==
    /\ products' = [products EXCEPT ![p].price = price, ![p].is_active = active]
    /\ orders' = [o \in DOMAIN orders |->
                    IF orders[o].status = "draft"
                    THEN [orders[o] EXCEPT !.items =
                            {[product_id |-> it.product_id,
                              unit_price |-> IF it.product_id = p THEN price ELSE it.unit_price]
                               : it \in @}]
                    ELSE orders[o]]
    /\ UNCHANGED <<customers, nextOrderId, nextId>>

BackendUpdateProduct(p, price, active) ==
    /\ products' = [products EXCEPT ![p].price = price, ![p].is_active = active]
    /\ UNCHANGED <<customers, orders, nextOrderId, nextId>>

\* orders that are confirmed or completed and reference a product / customer
ActiveOrdersOfProduct(p) == {o \in OrdersOfProduct(p) : ActiveOrder(o)}
ActiveOrdersOfCustomer(c) == {o \in OrdersOfCustomer(c) : ActiveOrder(o)}

\* The DELETE handlers are not part of the sources, and spec.md answers the
\* DELETE of a row that an active order references in two ways: it is
\* rejected (sections 7 and 8: 409/400), or the row is deactivated in place
\* of the removal (sections 3 and 6: soft-delete fallback).  Both are answers
\* of the model.  A row that only draft orders reference has no words in
\* spec.md: every answer is one of the model.  A row without references is
\* removed, a row that is not stored is not found.
DeleteAnswers == {"removed", "deactivated", "rejected"}

\* DELETE /products/{id}
ProductDeleteAnswers(p) ==
    IF ~products[p].exists THEN {"rejected"}
    ELSE IF OrdersOfProduct(p) = {} THEN {"removed"}
    ELSE IF ActiveOrdersOfProduct(p) # {} THEN {"deactivated", "rejected"}
    ELSE DeleteAnswers

BackendDeleteProduct(p, answer) ==
    /\ products' = CASE answer = "removed" -> [products EXCEPT ![p] = DeletedProduct]
                      [] answer = "deactivated" -> [products EXCEPT ![p].is_active = FALSE]
                      [] OTHER -> products
    /\ UNCHANGED <<customers, orders, nextOrderId, nextId>>

\* DELETE /customers/{id}; a customer has no field that says deactivated
\* (spec.md 3), so a soft-deleted customer is the row as it was
CustomerDeleteAnswers(c) ==
    IF c \notin customers THEN {"rejected"}
    ELSE IF OrdersOfCustomer(c) = {} THEN {"removed"}
    ELSE IF ActiveOrdersOfCustomer(c) # {} THEN {"deactivated", "rejected"}
    ELSE DeleteAnswers

BackendDeleteCustomer(c, answer) ==
    /\ customers' = IF answer = "removed" THEN customers \ {c} ELSE customers
    /\ UNCHANGED <<products, orders, nextOrderId, nextId>>

BackendUnchanged == UNCHANGED backend

\* the run may still add a row to a table
CanCreate(kind) ==
    (nextId.customer - NumCustomers - 1) + (nextId.product - NumProducts - 1) < MaxCreated

(* ------------------- the REST API called by any client ----------------- *)
\* Each call either reaches the back end (netOk) or fails on the way (axios
\* 'Network Error'); the service function throws in that case as it does on
\* an error status.

\* orderService.createOrder
CreateOrder(c, ps, netOk) ==
    /\ nextOrderId <= MaxOrders
    /\ UNCHANGED ui
    /\ IF netOk /\ CreateOrderAccepted(c, ps)
       THEN /\ BackendCreateOrder(c, ps)
            /\ http' = ServiceResult("createOrder", nextOrderId, "items", TRUE)
       ELSE /\ BackendUnchanged
            /\ http' = ServiceResult("createOrder", 0, "items", FALSE)

\* orderService.updateOrderStatus
UpdateOrderStatus(o, s, netOk) ==
    /\ UNCHANGED ui
    /\ IF netOk /\ StatusAccepted(o, s)
       THEN BackendUpdateStatus(o, s)
       ELSE BackendUnchanged
    /\ http' = ServiceResult("updateOrderStatus", o, s, netOk /\ StatusAccepted(o, s))

\* orderService.updateOrder
UpdateOrder(o, ps, keep, draftOnly, netOk) ==
    /\ UNCHANGED ui
    /\ IF netOk /\ ItemsAccepted(o, ps, draftOnly)
       THEN BackendUpdateItems(o, ps, keep)
       ELSE BackendUnchanged
    /\ http' = ServiceResult("updateOrder", o, "items",
                             netOk /\ ItemsAccepted(o, ps, draftOnly))

\* orderService.deleteOrder
DeleteOrder(o, netOk) ==
    /\ UNCHANGED ui
    /\ IF netOk /\ OrderDeletable(o)
       THEN BackendDeleteOrder(o)
       ELSE BackendUnchanged
    /\ http' = ServiceResult("deleteOrder", o, "none", netOk /\ OrderDeletable(o))

\* productService.createProduct
CreateProduct(price, active, netOk) ==
    /\ CanCreate("product")
    /\ UNCHANGED ui
    /\ IF netOk
       THEN /\ BackendCreateProduct(price, active)
            /\ http' = ServiceResult("createProduct", nextId.product, "fields", TRUE)
       ELSE /\ BackendUnchanged
            /\ http' = ServiceResult("createProduct", 0, "fields", FALSE)

\* productService.updateProduct
UpdateProduct(p, price, active, netOk) ==
    /\ UNCHANGED ui
    /\ IF netOk /\ ProductUpdatable(p)
       THEN BackendUpdateProduct(p, price, active)
       ELSE BackendUnchanged
    /\ http' = ServiceResult("updateProduct", p, "fields", netOk /\ ProductUpdatable(p))

\* productService.deleteProduct
DeleteProduct(p, answer, netOk) ==
    /\ answer \in ProductDeleteAnswers(p)
    /\ UNCHANGED ui
    /\ IF netOk THEN BackendDeleteProduct(p, answer) ELSE BackendUnchanged
    /\ http' = ServiceResult("deleteProduct", p, "none", netOk /\ answer # "rejected")

\* customerService.createCustomer
CreateCustomer(netOk) ==
    /\ CanCreate("customer")
    /\ UNCHANGED ui
    /\ IF netOk
       THEN /\ BackendCreateCustomer
            /\ http' = ServiceResult("createCustomer", nextId.customer, "fields", TRUE)
       ELSE /\ BackendUnchanged
            /\ http' = ServiceResult("createCustomer", 0, "fields", FALSE)

\* customerService.deleteCustomer
DeleteCustomer(c, answer, netOk) ==
    /\ answer \in CustomerDeleteAnswers(c)
    /\ UNCHANGED ui
    /\ IF netOk THEN BackendDeleteCustomer(c, answer) ELSE BackendUnchanged
    /\ http' = ServiceResult("deleteCustomer", c, "none", netOk /\ answer # "rejected")

(* ----------------------- requests of the front end --------------------- *)
\* state of one useMutation: its status and the number of HTTP requests sent
\* for the user action that started it
IdleSlot == [status |-> "idle", sent |-> 0]
StartRequest == [status |-> "pending", sent |-> 1]

\* automatic retries of a failed mutation: no useMutation call sets `retry`
MutationRetry == 0

\* a failed attempt is sent again while the failures so far are below `retry`
Resent(slot, retry) == slot.sent <= retry
AfterFailure(slot, retry) ==
    IF Resent(slot, retry) THEN [slot EXCEPT !.sent = @ + 1]
    ELSE [slot EXCEPT !.status = "error"]
AfterSuccess(slot) == [slot EXCEPT !.status = "success"]

(* ------------------------------ bounds of the front end ---------------- *)
MaxOrphans == 1
MaxIssued == 2
MaxTimers == 2
MaxEntries == 3
MaxPage == 2
MaxHistory == 1
MaxGoing == 1
MaxUnobserved == 2

(* ------------------------- requests of the lists ----------------------- *)
PageSize == 7
ProductsPageSize == 8
CustomersPageSize == 9

DetailPages == {"customer", "product"}
ListPages == {"customers", "products", "orders"}
ListOf(kind) == IF kind = "customer" THEN "customers" ELSE "products"
IdsOf(kind) == IF kind = "customer" THEN CustomerIds ELSE ProductIds

Terms == {"", "acme", "42"}
StatusFilters == {"all"} \cup Statuses
Views == {"active", "inactive"}
Absent == "<absent>"

\* the number of pages a list answers with: the tables hold further rows the
\* model does not follow one by one, so `pages` is an input of each answer
PageCounts == {1, MaxPage}

\* orderService.getOrders: the query string of GET /orders
GetOrdersParams(skip, limit, search, status) ==
    [skip |-> skip,
     limit |-> limit,
     search |-> IF search # "" THEN search ELSE Absent,
     status |-> IF status # "" /\ status # "all" THEN status ELSE Absent]

\* skip computed from a page counted from 0
QueryFnFromZero(page, searchTerm, statusFilter) ==
    GetOrdersParams(page * PageSize, PageSize, searchTerm, statusFilter)

\* Orders queryFn
QueryFn(page, searchTerm, statusFilter) ==
    GetOrdersParams((page - 1) * PageSize, PageSize, searchTerm, statusFilter)

\* Products queryFn: the arguments of productService.getProducts
ProductsQueryFn(page, searchTerm, view) ==
    [skip |-> (page - 1) * ProductsPageSize,
     limit |-> ProductsPageSize,
     search |-> searchTerm,
     isActive |-> IF searchTerm # "" THEN Absent
                  ELSE IF view = "active" THEN "true" ELSE "false"]

\* Customers queryFn: the arguments of customerService.getCustomers
CustomersQueryFn(page, searchTerm) ==
    [skip |-> (page - 1) * CustomersPageSize,
     limit |-> CustomersPageSize,
     search |-> searchTerm]

NoParams == [skip |-> 0, limit |-> 0, search |-> Absent, status |-> Absent]

(* ------------------------------ Dashboard ------------------------------ *)
MaxMonth == 12
DashboardStaleTime == 60000

\* the options of the month select the model follows: the whole year (0), the
\* first and the last month
Months == {0, 1, MaxMonth}

\* the month the page opens on: new Date().getMonth() + 1
CurrentMonths == {1, MaxMonth}

\* every request of the page is built with the verb of a form post
GetDashboardStatsPosted(month) ==
    [method |-> "POST", path |-> "/dashboard/stats",
     params |-> IF month # 0 THEN {month} ELSE {}]

\* dashboardService.getDashboardStats; month undefined is written 0, which is
\* as falsy as undefined
GetDashboardStats(month) ==
    [method |-> "GET", path |-> "/dashboard/stats",
     params |-> IF month # 0 THEN {month} ELSE {}]

\* Dashboard queryFn
DashboardQueryFn(selectedMonth) ==
    GetDashboardStats(IF selectedMonth = 0 THEN 0 ELSE selectedMonth)

NoRequest == [method |-> "none", path |-> "none", params |-> {}]
NoStats == [active_engagements |-> 0, inactive_engagements |-> 0]
NoDash == [selectedMonth |-> 0, request |-> NoRequest]

\* GET /dashboard/stats: the KPI cards aggregated from the orders table
DashboardStats ==
    [active_engagements |-> Cardinality({o \in DOMAIN orders : ActiveOrder(o)}),
     inactive_engagements |-> Cardinality({o \in DOMAIN orders : ~ActiveOrder(o)})]

(* --------------------- the queries of the QueryClient ------------------ *)
\* A query key: ['orders', searchTerm, page, pageSize, statusFilter] of a list
\* page (pageSize is fixed per page), ['customers'] / ['products'] of the order
\* modal, ['customer', id] / ['product', id] / ['order', id] of a detail page,
\* ['dashboard', 'stats', selectedMonth] (the month is written in `id`).
NoKey ==
    [resource |-> "none", id |-> 0, searchTerm |-> Absent, page |-> 0,
     statusFilter |-> Absent]

KeyOf(l) ==
    [resource |-> l.resource, id |-> 0, searchTerm |-> l.searchTerm,
     page |-> l.page, statusFilter |-> l.statusFilter]
PrefixKey(resource) == [NoKey EXCEPT !.resource = resource]
DetailKey(kind, id) == [NoKey EXCEPT !.resource = kind, !.id = id]
DashKey(month) == [NoKey EXCEPT !.resource = "dashboard", !.id = month]

IsListKey(key) == key.resource \in ListPages /\ key.page > 0

\* what a query holds once it was answered: the page count and the followed
\* rows of a list, the status / customer / item products of an order, the
\* orders of a customer, the KPI cards
NoResult ==
    [pages |-> 0, rows |-> {}, loaded |-> "none", customer |-> 0, stats |-> NoStats]

\* a query: status and data as the observers read them, `fetching` while a
\* request of it is in flight (the first one or one the library sends again),
\* `fresh` while its data is younger than staleTime, `params` the arguments
\* its queryFn gave the service for the last fetch
NoEntry ==
    [status |-> "pending", fetching |-> FALSE, hasData |-> FALSE,
     data |-> NoResult, fresh |-> FALSE, params |-> NoParams]

NoCache == <<>>

EntryOf(c, key) == IF key \in DOMAIN c THEN c[key] ELSE NoEntry

Put(c, key, e) == [k \in DOMAIN c \cup {key} |-> IF k = key THEN e ELSE c[k]]

\* the arguments the queryFn of the key's page passes to the service
ParamsOf(key) ==
    CASE IsListKey(key) /\ key.resource = "orders" ->
            QueryFn(key.page, key.searchTerm, key.statusFilter)
      [] IsListKey(key) /\ key.resource = "products" ->
            ProductsQueryFn(key.page, key.searchTerm, key.statusFilter)
      [] IsListKey(key) /\ key.resource = "customers" ->
            CustomersQueryFn(key.page, key.searchTerm)
      [] OTHER -> NoParams

\* a fetch starts: status and error stay as they are while the query has data
StartFetch(e, key) ==
    [e EXCEPT !.fetching = TRUE,
              !.status = IF e.hasData THEN @ ELSE "pending",
              !.params = ParamsOf(key)]

IsStale(e) == ~(e.hasData /\ e.fresh)

\* an observer mounts on the key / moves to it / is enabled: the query is
\* fetched unless a request of it is in flight or its data is fresh
Starts(c, key) == ~EntryOf(c, key).fetching /\ IsStale(EntryOf(c, key))
Observing(c, key) ==
    IF Starts(c, key) THEN Put(c, key, StartFetch(EntryOf(c, key), key))
    ELSE Put(c, key, EntryOf(c, key))

StaleTime(key) == IF key.resource = "dashboard" THEN DashboardStaleTime ELSE 0

\* the fetch of the key settles: the answer goes to the query of that key.
\* No useQuery call sets `retry`; whether the library sends a failed request
\* again is set where the QueryClient is constructed, which is not part of the
\* sources.  A request sent again leaves the query as it is (fetching, status
\* and data unchanged), so the step of a failure is the one after which the
\* library gives up, however many requests it sent before
Settled(c, key, ok, result) ==
    [c EXCEPT ![key] =
        IF ok THEN [@ EXCEPT !.status = "success", !.fetching = FALSE,
                             !.hasData = TRUE, !.data = result,
                             !.fresh = StaleTime(key) > 0]
        ELSE [@ EXCEPT !.status = "error", !.fetching = FALSE]]

\* invalidateQueries({queryKey: [resource]}) (id 0) or ([resource, id]): the
\* queries under the prefix are stale, the ones an enabled observer reads are
\* fetched again
Invalidated(c, resource, id, active) ==
    [k \in DOMAIN c |->
        IF k.resource = resource /\ (id = 0 \/ k.id = id)
        THEN IF k \in active THEN StartFetch([c[k] EXCEPT !.fresh = FALSE], k)
             ELSE [c[k] EXCEPT !.fresh = FALSE]
        ELSE c[k]]

(* ---------------------------- list page state -------------------------- *)
\* what the Table and the Pagination render: the data of a key
NoShown == [key |-> NoKey, pages |-> 0, rows |-> {}]

\* `last` is the key of the last query the page observed with data: the
\* observer keeps the query itself, so `kept` is the data of that query once
\* the cache dropped it (NoShown while the cache holds it); `shown` is the
\* data the page renders and `placeholder` whether that is the data of an
\* earlier query (keepPreviousData); isModalOpen and formError belong to the
\* create form of the Products and Customers pages
NoList ==
    [resource |-> "none", searchTerm |-> "", page |-> 1, statusFilter |-> Absent,
     last |-> NoKey, kept |-> NoShown, shown |-> NoShown, placeholder |-> FALSE,
     isModalOpen |-> FALSE, formError |-> "none"]

InitialFilter(resource) ==
    CASE resource = "orders" -> "all"
      [] resource = "products" -> "active"
      [] OTHER -> Absent

\* the state a list page mounts with
MountedList(resource) ==
    IF resource \in ListPages
    THEN [NoList EXCEPT !.resource = resource, !.statusFilter = InitialFilter(resource)]
    ELSE NoList

ShownOf(key, e) == [key |-> key, pages |-> e.data.pages, rows |-> e.data.rows]

\* the data of the last query observed with data, in the cache or not
PreviousData(l, c) ==
    IF l.kept # NoShown THEN l.kept ELSE ShownOf(l.last, EntryOf(c, l.last))

\* the page renders the data of `last` whatever its key holds
RenderedPrevious(l, c) ==
    IF l.resource = "none" THEN l
    ELSE IF l.last # NoKey
    THEN [l EXCEPT !.shown = PreviousData(l, c), !.placeholder = TRUE]
    ELSE IF EntryOf(c, KeyOf(l)).hasData
    THEN [l EXCEPT !.last = KeyOf(l), !.kept = NoShown, !.placeholder = FALSE,
                   !.shown = ShownOf(KeyOf(l), EntryOf(c, KeyOf(l)))]
    ELSE [l EXCEPT !.shown = NoShown, !.placeholder = FALSE]

\* the result of useQuery with placeholderData: keepPreviousData as the page
\* renders it: the data of its key if the query has any; while the query is
\* pending, the placeholder already rendered or else the data of `last`;
\* nothing otherwise
Rendered(l, c) ==
    IF l.resource = "none" THEN l
    ELSE IF EntryOf(c, KeyOf(l)).hasData
    THEN [l EXCEPT !.last = KeyOf(l), !.kept = NoShown, !.placeholder = FALSE,
                   !.shown = ShownOf(KeyOf(l), EntryOf(c, KeyOf(l)))]
    ELSE IF EntryOf(c, KeyOf(l)).status = "pending"
    THEN IF l.placeholder THEN l
         ELSE IF l.last # NoKey
         THEN [l EXCEPT !.shown = PreviousData(l, c), !.placeholder = TRUE]
         ELSE [l EXCEPT !.shown = NoShown]
    ELSE [l EXCEPT !.shown = NoShown, !.placeholder = FALSE]

\* the flags of the observed query: the error banner and the dimmed table
IsError == EntryOf(cache, KeyOf(list)).status = "error"
IsFetching == EntryOf(cache, KeyOf(list)).fetching

\* totalPages of the Pagination: data?.pages ?? 1
TotalPages == IF list.shown = NoShown THEN 1 ELSE list.shown.pages

(* --------------------------------- SearchBar --------------------------- *)
\* the input value and the debounce timers not yet fired or cleared, oldest
\* first, each with the value its callback closed over
NoBar == [value |-> "", timers |-> <<>>, entered |-> FALSE]

(* ---------------- CustomerDetail / ProductDetail state ----------------- *)
NoData == [price |-> 0, is_active |-> FALSE]
NoDetail ==
    [del |-> IdleSlot, upd |-> IdleSlot, updData |-> NoData,
     isEditModalOpen |-> FALSE, editError |-> "none"]

\* the forms' payloads: ProductUpdate / ProductCreate carry price and
\* is_active, the fields of a customer (name, last_name, email) are not part
\* of the model
UpdateData(kind) ==
    IF kind = "product"
    THEN {[price |-> pr, is_active |-> a] : pr \in Prices, a \in BOOLEAN}
    ELSE {NoData}

(* --------------------------- CreateOrderModal state -------------------- *)
\* `order` is 0 for POST /orders and the id of the edited order for
\* PATCH /orders/{id}
NoPayload == [order |-> 0, customer_id |-> 0, items |-> {}]

ClosedModal ==
    [isOpen |-> FALSE, customerId |-> 0, currentProduct |-> 0, cart |-> <<>>,
     error |-> "none", successMessage |-> "none",
     create |-> IdleSlot, update |-> IdleSlot,
     inFlight |-> FALSE, payload |-> NoPayload,
     orphans |-> <<>>, issued |-> 0,
     timer |-> {}, stale |-> {}, notified |-> <<>>]

(* --------------------------- routes and observers ---------------------- *)
OnOrders == route.page = "orders"
OnProducts == route.page = "products"
OnCustomers == route.page = "customers"
OnList == route.page \in ListPages
OnDetail == route.page \in DetailPages
OnOrderDetail == route.page = "order"
OnDashboard == route.page = "dashboard"

\* the key the page of a route observes when it mounts (m: the current month)
PageKeyOf(r, m) ==
    CASE r.page \in ListPages -> KeyOf(MountedList(r.page))
      [] r.page = "dashboard" -> DashKey(m)
      [] OTHER -> DetailKey(r.page, r.id)

\* the key the mounted page observes
PageKey ==
    CASE OnList -> KeyOf(list)
      [] OnDashboard -> DashKey(dash.selectedMonth)
      [] OTHER -> DetailKey(route.page, route.id)

\* the list queries of CreateOrderModal, enabled while the modal is open; the
\* modal is mounted with the Orders page, the one page that renders it
ModalKeys == {PrefixKey("customers"), PrefixKey("products")}
\* the queries of the pages stay within the bound of the model, next to the
\* two of the order modal
WithinEntries(c) == Cardinality(DOMAIN c \ ModalKeys) <= MaxEntries
ModalMounted == OnOrders

\* the queries an enabled observer reads / the queries any observer holds
ActiveKeys == {PageKey} \cup (IF modal.isOpen THEN ModalKeys ELSE {})
HeldKeys == {PageKey} \cup (IF ModalMounted THEN ModalKeys ELSE {})

(* ------------------------------ history -------------------------------- *)
\* `back`: the entries under the current one, oldest first, each with its
\* route and whether its location.key is 'default'; `first`: the key of the
\* current entry is 'default' (the entry the session started on, not replaced
\* since); `going`: the traversals asked for by navigate(-1) or the back
\* button whose popstate has not arrived
NoHistory == [first |-> TRUE, back |-> <<>>, going |-> 0]

Trimmed(seq) == IF Len(seq) > MaxHistory THEN Tail(seq) ELSE seq

\* navigate(to): a new entry on top of the current one
Pushed ==
    [first |-> FALSE,
     back |-> Trimmed(Append(history.back,
                 [page |-> route.page, id |-> route.id, first |-> history.first])),
     going |-> history.going]

\* navigate(to, {replace: true}), which is what a Link does when `to` is the
\* current location: the current entry gets a new location.key
Replaced == [history EXCEPT !.first = FALSE]

\* history.go(-1): the traversal is asked for and happens later
CanGo == history.going < MaxGoing /\ Len(history.back) > history.going
Going == [history EXCEPT !.going = @ + 1]

\* the traversal happens: the entry under the current one becomes current
Previous == history.back[Len(history.back)]
Popped ==
    [first |-> Previous.first,
     back |-> SubSeq(history.back, 1, Len(history.back) - 1),
     going |-> history.going - 1]

(* -------------------- requests and timers left behind ------------------ *)
\* A request whose mutation observer moved on or whose component is gone
\* still settles and still runs the callbacks given to useMutation; a timer
\* still fires.  `mounted`: the component that started it is still there.
Task(op, page, id, data, payload) ==
    [op |-> op, page |-> page, id |-> id, data |-> data, payload |-> payload,
     mounted |-> FALSE]

RECURSIVE SeqOf(_)
SeqOf(s) ==
    IF s = {} THEN <<>>
    ELSE LET x == CHOOSE y \in s : \A z \in s : y <= z
         IN <<x>> \o SeqOf(s \ {x})

\* the page unmounts: what it had in flight goes on without it
LeftBehind(u, d, mo) ==
    [i \in 1..Len(u) |-> [u[i] EXCEPT !.mounted = FALSE]]
    \o (IF d.del.status = "pending"
        THEN <<Task("delete", route.page, route.id, NoData, NoPayload)>> ELSE <<>>)
    \o (IF d.upd.status = "pending"
        THEN <<Task("update", route.page, route.id, d.updData, NoPayload)>> ELSE <<>>)
    \o [i \in 1..Len(mo.orphans) |-> Task("order", route.page, 0, NoData, mo.orphans[i])]
    \o (IF mo.inFlight
        THEN <<Task("order", route.page, 0, NoData, mo.payload)>> ELSE <<>>)
    \o [i \in 1..Cardinality(mo.timer) |->
            Task("timer", route.page, SeqOf(mo.timer)[i], NoData, NoPayload)]

\* the router shows route r: the page shown unmounts, the page of r mounts
\* with its initial state and observes its query in the cache c
Navigate(r, m, c, d, u) ==
    /\ Len(LeftBehind(u, d, modal)) <= MaxUnobserved
    /\ unobserved' = LeftBehind(u, d, modal)
    /\ route' = r
    /\ detail' = NoDetail
    /\ modal' = ClosedModal
    /\ bar' = NoBar
    /\ cache' = Observing(c, PageKeyOf(r, m))
    /\ WithinEntries(cache')
    /\ list' = Rendered(MountedList(r.page), cache')
    /\ dash' = IF r.page = "dashboard"
               THEN [selectedMonth |-> m,
                     request |-> IF Starts(c, DashKey(m))
                                 THEN DashboardQueryFn(m) ELSE NoRequest]
               ELSE NoDash

\* a query nothing observes is dropped from the cache (gcTime); the observer
\* of the list page keeps the last query it had data from, with its data
Collect(key) ==
    /\ key \in DOMAIN cache
    /\ ~cache[key].fetching
    /\ key \notin HeldKeys
    /\ cache' = [k \in DOMAIN cache \ {key} |-> cache[k]]
    /\ list' = IF key = list.last /\ list.kept = NoShown
               THEN [list EXCEPT !.kept = ShownOf(key, cache[key])]
               ELSE list
    /\ UNCHANGED <<backend, http, route, history, detail, modal, bar, dash,
                   unobserved, alerted>>

\* the data of a query gets older than its staleTime
Expire(key) ==
    /\ key \in DOMAIN cache
    /\ cache[key].fresh
    /\ cache' = [cache EXCEPT ![key].fresh = FALSE]
    /\ UNCHANGED <<backend, http, route, history, detail, modal, list, bar, dash,
                   unobserved, alerted>>

(* ------------------------- answers of the back end --------------------- *)
\* what the two list queries of the modal would answer now
CustomersAnswer == customers
\* the list is offered as fetched, inactive services included
ProductsAnswerUnfiltered == {p \in ProductIds : products[p].exists}
\* allProducts.filter(p => p.is_active)
ProductsAnswer == {p \in ProductIds : products[p].exists /\ products[p].is_active}

EntityExists(kind, id) ==
    IF kind = "customer" THEN id \in customers ELSE products[id].exists

\* the followed rows on a page of a list: they come first in the listing and
\* match none of the search terms
ListRows(key) ==
    IF key.searchTerm # "" \/ key.page # 1 THEN {}
    ELSE CASE key.resource = "orders" ->
                {o \in DOMAIN orders : key.statusFilter \in {"all", orders[o].status}}
           [] key.resource = "products" ->
                {p \in ProductIds : /\ products[p].exists
                                    /\ products[p].is_active = (key.statusFilter = "active")}
           [] OTHER -> customers

\* GET of a detail key answers 404 for a row that is not stored
Found(key) ==
    CASE key.resource = "order" -> key.id \in DOMAIN orders
      [] key.resource \in DetailPages ->
            key.id \in IdsOf(key.resource) /\ EntityExists(key.resource, key.id)
      [] OTHER -> TRUE

\* the data a query gets from the answer to its request
Answer(key, pages) ==
    CASE IsListKey(key) ->
            [NoResult EXCEPT !.pages = pages, !.rows = ListRows(key)]
      [] key = PrefixKey("customers") -> [NoResult EXCEPT !.rows = CustomersAnswer]
      [] key = PrefixKey("products") -> [NoResult EXCEPT !.rows = ProductsAnswer]
      [] key.resource = "customer" ->
            [NoResult EXCEPT !.rows = OrdersOfCustomer(key.id)]
      [] key.resource = "order" ->
            [NoResult EXCEPT !.loaded = orders[key.id].status,
                             !.customer = orders[key.id].customer_id,
                             !.rows = ItemProducts(key.id)]
      [] key.resource = "dashboard" -> [NoResult EXCEPT !.stats = DashboardStats]
      [] OTHER -> NoResult

\* the request of a query settles, in any order, observed or not
QueryResponse(key, netOk, pages) ==
    /\ key \in DOMAIN cache
    /\ cache[key].fetching
    /\ IsListKey(key) \/ pages = 1
    /\ cache' = Settled(cache, key, netOk /\ Found(key),
                        IF netOk /\ Found(key) THEN Answer(key, pages) ELSE NoResult)
    /\ list' = Rendered(list, cache')
    /\ UNCHANGED <<backend, http, route, history, detail, modal, bar, dash,
                   unobserved, alerted>>

(* ------------------------------ list pages ----------------------------- *)
\* the state setters of a handler left the page in state l: useQuery moves to
\* the key of l; a key that did not change starts no request
Keyed(l) ==
    IF KeyOf(l) = KeyOf(list)
    THEN list' = l /\ cache' = cache
    ELSE /\ cache' = Observing(cache, KeyOf(l))
         /\ WithinEntries(cache')
         /\ list' = Rendered(l, cache')

\* handleSearch of the page: Orders also goes back to the tab 'all'
Searched(l, term) ==
    IF l.resource = "orders"
    THEN [l EXCEPT !.searchTerm = term, !.page = 1, !.statusFilter = "all"]
    ELSE [l EXCEPT !.searchTerm = term, !.page = 1]

\* Orders.handleSearch
HandleSearch(term) ==
    /\ OnList /\ OnOrders
    /\ Keyed(Searched(list, term))
    /\ UNCHANGED <<backend, http, route, history, detail, modal, bar, dash,
                   unobserved, alerted>>

\* the tab is changed and the page is kept
HandleStatusChangeKeepingPage(status) ==
    /\ OnList /\ OnOrders
    /\ Keyed([list EXCEPT !.statusFilter = status])
    /\ UNCHANGED <<backend, http, route, history, detail, modal, bar, dash,
                   unobserved, alerted>>

\* Orders.handleStatusChange
HandleStatusChange(status) ==
    /\ OnList /\ OnOrders
    /\ Keyed([list EXCEPT !.statusFilter = status, !.page = 1])
    /\ UNCHANGED <<backend, http, route, history, detail, modal, bar, dash,
                   unobserved, alerted>>

\* Pagination.handleChange -> setPage: nothing is rendered for one page, and a
\* page outside 1..totalPages or the current page is ignored; up to five
\* pages every page has its button
SetPage(p) ==
    /\ OnList
    /\ TotalPages > 1
    /\ ~(p < 1 \/ p > TotalPages \/ p = list.page)
    /\ Keyed([list EXCEPT !.page = p])
    /\ UNCHANGED <<backend, http, route, history, detail, modal, bar, dash,
                   unobserved, alerted>>

\* Pagination of the Products page
ProductsSetPage(p) == OnProducts /\ SetPage(p)

\* GET of the key the list page observes settles; isError renders the banner
ListResponse(netOk, pages) ==
    /\ OnList
    /\ QueryResponse(KeyOf(list), netOk, pages)

\* GET /products of the Products page settles
ProductsListResponse(netOk, pages) == OnProducts /\ ListResponse(netOk, pages)

\* Products.handleSearch
ProductsHandleSearch(term) ==
    /\ OnList /\ OnProducts
    /\ Keyed(Searched(list, term))
    /\ UNCHANGED <<backend, http, route, history, detail, modal, bar, dash,
                   unobserved, alerted>>

\* Customers.handleSearch
CustomersHandleSearch(term) ==
    /\ OnList /\ OnCustomers
    /\ Keyed(Searched(list, term))
    /\ UNCHANGED <<backend, http, route, history, detail, modal, bar, dash,
                   unobserved, alerted>>

\* the Active Services / Inactive Services tabs, disabled while a search term
\* is set
SetView(view) ==
    /\ OnList /\ OnProducts
    /\ list.searchTerm = ""
    /\ Keyed([list EXCEPT !.statusFilter = view, !.page = 1])
    /\ UNCHANGED <<backend, http, route, history, detail, modal, bar, dash,
                   unobserved, alerted>>

(* ------------------------------- SearchBar ----------------------------- *)
\* the cleanup of the effect leaves the timer it started running
CleanupKeeping(timers) == timers

\* the cleanup of the effect: clearTimeout of the timer it started
Cleanup(timers) ==
    IF timers = <<>> THEN <<>> ELSE SubSeq(timers, 1, Len(timers) - 1)

\* onChange -> setValue(v): the effect of the old value is cleaned up and the
\* effect of the new value starts a timer of 400 ms holding v
SetValue(v) ==
    /\ OnList
    /\ v # bar.value
    /\ Len(Cleanup(bar.timers)) < MaxTimers
    /\ bar' = [value |-> v, timers |-> Append(Cleanup(bar.timers), v),
               entered |-> FALSE]
    /\ UNCHANGED <<backend, http, route, history, detail, modal, list, dash, cache,
                   unobserved, alerted>>

\* the clear button, rendered while the value is not empty
ClearValue ==
    /\ bar.value # ""
    /\ SetValue("")

\* handleKeyDown with Enter: onSearch(value)
PressEnter ==
    /\ OnList
    /\ Keyed(Searched(list, bar.value))
    /\ bar' = [bar EXCEPT !.entered = TRUE]
    /\ UNCHANGED <<backend, http, route, history, detail, modal, dash,
                   unobserved, alerted>>

\* a timer of the debounce runs out: onSearch of the value it holds
DebounceFires ==
    /\ OnList
    /\ bar.timers # <<>>
    /\ Keyed(Searched(list, Head(bar.timers)))
    /\ bar' = [bar EXCEPT !.timers = Tail(@)]
    /\ UNCHANGED <<backend, http, route, history, detail, modal, dash,
                   unobserved, alerted>>

(* --------------- create form of the Products / Customers page ---------- *)
KindOf(resource) == IF resource = "customers" THEN "customer" ELSE "product"

\* New Service / New Client: setIsModalOpen(true)
OpenForm ==
    /\ OnList /\ ~OnOrders
    /\ list' = [list EXCEPT !.isModalOpen = TRUE]
    /\ UNCHANGED <<backend, http, route, history, detail, modal, bar, dash, cache,
                   unobserved, alerted>>

\* the X of the Modal and Cancel of the form: setIsModalOpen(false)
CloseForm ==
    /\ OnList /\ list.isModalOpen
    /\ list' = [list EXCEPT !.isModalOpen = FALSE]
    /\ UNCHANGED <<backend, http, route, history, detail, modal, bar, dash, cache,
                   unobserved, alerted>>

\* handleFormSubmit up to its await: setFormError(null) and the POST; Save is
\* never disabled, every click sends a request
SubmitForm(d) ==
    /\ OnList /\ list.isModalOpen
    /\ d \in UpdateData(KindOf(list.resource))
    /\ Len(unobserved) < MaxUnobserved
    /\ list' = [list EXCEPT !.formError = "none"]
    /\ unobserved' = Append(unobserved,
            [Task("form", list.resource, 0, d, NoPayload) EXCEPT !.mounted = TRUE])
    /\ UNCHANGED <<backend, http, route, history, detail, modal, bar, dash, cache,
                   alerted>>

BackendCreate(kind, d) ==
    IF kind = "customer" THEN BackendCreateCustomer
    ELSE BackendCreateProduct(d.price, d.is_active)

\* handleFormSubmit after its await: the POST settled; invalidate the list and
\* close the form, or setFormError; the state setters do nothing once the page
\* is gone
FormResponse(i, netOk) ==
    /\ i \in 1..Len(unobserved)
    /\ unobserved[i].op = "form"
    /\ unobserved' = RemoveAt(unobserved, i)
    /\ IF netOk /\ CanCreate(KindOf(unobserved[i].page))
       THEN /\ BackendCreate(KindOf(unobserved[i].page), unobserved[i].data)
            /\ cache' = Invalidated(cache, unobserved[i].page, 0, ActiveKeys)
            /\ list' = Rendered([list EXCEPT !.isModalOpen =
                                    IF unobserved[i].mounted THEN FALSE ELSE @], cache')
       ELSE /\ BackendUnchanged
            /\ cache' = cache
            /\ list' = [list EXCEPT !.formError =
                          IF unobserved[i].mounted THEN "Failed to create" ELSE @]
    /\ UNCHANGED <<http, route, history, detail, modal, bar, dash, alerted>>

(* ---------------- CustomerDetail / ProductDetail pages ----------------- *)
DeleteAnswersOf(kind, id) ==
    IF kind = "customer" THEN CustomerDeleteAnswers(id) ELSE ProductDeleteAnswers(id)
BackendDelete(kind, id, answer) ==
    IF kind = "customer" THEN BackendDeleteCustomer(id, answer)
    ELSE BackendDeleteProduct(id, answer)
BackendUpdate(kind, id, d) ==
    IF kind = "customer" THEN BackendUnchanged
    ELSE BackendUpdateProduct(id, d.price, d.is_active)

\* the query of the mounted detail page
DetailEntry == EntryOf(cache, DetailKey(route.page, route.id))

\* DetailLayout: the loading view while isLoading, the error view while
\* isError (also after a failed refetch), the content with its actions
\* otherwise
DetailContent == DetailEntry.hasData /\ DetailEntry.status = "success"

\* useQuery(['customer', id]) / (['product', id]) settles
DetailQueryResponse(netOk) ==
    /\ OnDetail
    /\ QueryResponse(DetailKey(route.page, route.id), netOk, 1)

\* the Delete button is rendered with the content, and is disabled while the
\* mutation is pending; the open edit Modal does not take it out of the tab
\* order
DeleteDisabled ==
    \/ ~DetailContent
    \/ detail.del.status = "pending"

\* handleDelete, the user confirming window.confirm
HandleDelete ==
    /\ OnDetail
    /\ ~DeleteDisabled
    /\ detail' = [detail EXCEPT !.del = StartRequest]
    /\ UNCHANGED <<backend, http, route, history, modal, list, bar, dash, cache,
                   unobserved, alerted>>

\* deleteMutation.onSuccess: invalidateQueries of the list, navigate to it
DeleteOnSuccess(kind) ==
    /\ Navigate([page |-> ListOf(kind), id |-> 0], 0,
                Invalidated(cache, ListOf(kind), 0, ActiveKeys),
                [detail EXCEPT !.del = AfterSuccess(@)], unobserved)
    /\ history' = Pushed
    /\ alerted' = alerted

\* deleteMutation.onError: alert(`Cannot delete ...`), the page stays
DeleteOnError(kind) ==
    /\ detail' = [detail EXCEPT !.del.status = "error"]
    /\ alerted' = "Cannot delete: Failed to delete"
    /\ UNCHANGED <<route, history, modal, list, bar, dash, cache, unobserved>>

\* the DELETE settles: customerService.deleteCustomer resolves (the row was
\* removed or deactivated) or throws (the request was rejected or got no
\* answer)
DeleteResponse(netOk, answer) ==
    /\ OnDetail
    /\ detail.del.status = "pending"
    /\ answer \in DeleteAnswersOf(route.page, route.id)
    /\ http' = http
    /\ IF netOk /\ answer # "rejected"
       THEN /\ BackendDelete(route.page, route.id, answer)
            /\ DeleteOnSuccess(route.page)
       ELSE /\ BackendUnchanged
            /\ IF Resent(detail.del, MutationRetry)
               THEN /\ detail' = [detail EXCEPT !.del = AfterFailure(@, MutationRetry)]
                    /\ UNCHANGED <<route, history, modal, list, bar, dash, cache,
                                   unobserved, alerted>>
               ELSE DeleteOnError(route.page)

\* the Edit button, disabled while a mutation of the page is pending
OpenEdit ==
    /\ OnDetail
    /\ DetailContent
    /\ detail.upd.status # "pending" /\ detail.del.status # "pending"
    /\ detail' = [detail EXCEPT !.isEditModalOpen = TRUE]
    /\ UNCHANGED <<backend, http, route, history, modal, list, bar, dash, cache,
                   unobserved, alerted>>

\* handleEditSubmit: updateMutation.mutate(data); Save of the form is never
\* disabled: a submit while a PATCH is pending sends another one, and the
\* mutation observer follows the newest
HandleEditSubmit(d) ==
    /\ OnDetail
    /\ detail.isEditModalOpen
    /\ d \in UpdateData(route.page)
    /\ detail.upd.status = "pending" => Len(unobserved) < MaxUnobserved
    /\ detail' = [detail EXCEPT !.upd = StartRequest, !.updData = d]
    /\ unobserved' =
          IF detail.upd.status = "pending"
          THEN Append(unobserved,
                  [Task("update", route.page, route.id, detail.updData, NoPayload)
                      EXCEPT !.mounted = TRUE])
          ELSE unobserved
    /\ UNCHANGED <<backend, http, route, history, modal, list, bar, dash, cache,
                   alerted>>

\* invalidateQueries(['customer', id]) and (['customers']) of onSuccess
UpdateInvalidated(c, kind, id) ==
    Invalidated(Invalidated(c, kind, id, ActiveKeys), ListOf(kind), 0, ActiveKeys)

\* updateMutation.onSuccess: both invalidations (the page fetches its entity
\* again), the edit modal closes
UpdateOnSuccess ==
    /\ cache' = UpdateInvalidated(cache, route.page, route.id)
    /\ detail' = [detail EXCEPT !.upd.status = "success", !.updData = NoData,
                                !.isEditModalOpen = FALSE, !.editError = "none"]

\* updateMutation.onError: setEditError(message)
UpdateOnError ==
    /\ cache' = cache
    /\ detail' = [detail EXCEPT !.upd.status = "error", !.updData = NoData,
                                !.editError = "Failed to update"]

\* the PATCH the mutation observer follows settles
UpdateResponse(netOk) ==
    /\ OnDetail
    /\ detail.upd.status = "pending"
    /\ IF netOk /\ EntityExists(route.page, route.id)
       THEN /\ BackendUpdate(route.page, route.id, detail.updData)
            /\ UpdateOnSuccess
       ELSE /\ BackendUnchanged
            /\ IF Resent(detail.upd, MutationRetry)
               THEN /\ detail' = [detail EXCEPT !.upd = AfterFailure(@, MutationRetry)]
                    /\ cache' = cache
               ELSE UpdateOnError
    /\ UNCHANGED <<http, route, history, modal, list, bar, dash, unobserved, alerted>>

\* closing the edit modal: Cancel of the form also clears editError, the X of
\* Modal only closes
CloseEdit(cancel) ==
    /\ OnDetail
    /\ detail.isEditModalOpen
    /\ detail' = [detail EXCEPT !.isEditModalOpen = FALSE,
                                !.editError = IF cancel THEN "none" ELSE @]
    /\ UNCHANGED <<backend, http, route, history, modal, list, bar, dash, cache,
                   unobserved, alerted>>

\* a PATCH the observer no longer follows settles: onSuccess / onError of
\* updateMutation run all the same; their state setters do nothing once the
\* page is gone
UnobservedUpdate(i, netOk) ==
    /\ i \in 1..Len(unobserved)
    /\ unobserved[i].op = "update"
    /\ unobserved' = RemoveAt(unobserved, i)
    /\ IF netOk /\ EntityExists(unobserved[i].page, unobserved[i].id)
       THEN /\ BackendUpdate(unobserved[i].page, unobserved[i].id, unobserved[i].data)
            /\ cache' = UpdateInvalidated(cache, unobserved[i].page, unobserved[i].id)
            /\ detail' = IF unobserved[i].mounted
                         THEN [detail EXCEPT !.isEditModalOpen = FALSE,
                                             !.editError = "none"]
                         ELSE detail
       ELSE /\ BackendUnchanged
            /\ cache' = cache
            /\ detail' = IF unobserved[i].mounted
                         THEN [detail EXCEPT !.editError = "Failed to update"]
                         ELSE detail
    /\ list' = Rendered(list, cache')
    /\ UNCHANGED <<http, route, history, modal, bar, dash, alerted>>

\* a DELETE whose page is gone settles: onSuccess invalidates and navigates to
\* the list all the same, onError alerts
UnobservedDelete(i, netOk, answer) ==
    /\ i \in 1..Len(unobserved)
    /\ unobserved[i].op = "delete"
    /\ answer \in DeleteAnswersOf(unobserved[i].page, unobserved[i].id)
    /\ http' = http
    /\ IF netOk /\ answer # "rejected"
       THEN /\ BackendDelete(unobserved[i].page, unobserved[i].id, answer)
            /\ history' = Pushed
            /\ alerted' = alerted
            /\ IF route.page = ListOf(unobserved[i].page)
               THEN /\ cache' = Invalidated(cache, route.page, 0, ActiveKeys)
                    /\ list' = Rendered(list, cache')
                    /\ unobserved' = RemoveAt(unobserved, i)
                    /\ UNCHANGED <<route, detail, modal, bar, dash>>
               ELSE Navigate([page |-> ListOf(unobserved[i].page), id |-> 0], 0,
                             Invalidated(cache, ListOf(unobserved[i].page), 0, ActiveKeys),
                             detail, RemoveAt(unobserved, i))
       ELSE /\ BackendUnchanged
            /\ alerted' = "Cannot delete: Failed to delete"
            /\ unobserved' = RemoveAt(unobserved, i)
            /\ UNCHANGED <<route, history, detail, modal, list, bar, dash, cache>>

(* --------------------------- OrderDetail page -------------------------- *)
\* useQuery(['order', orderId]) settles: the page keeps the order as loaded.
\* Its Edit and Cancel Order buttons, rendered for an order loaded as draft,
\* have no onClick: the page sends nothing but this query
OrderQueryResponse(netOk) ==
    /\ OnOrderDetail
    /\ QueryResponse(DetailKey("order", route.id), netOk, 1)

(* ------------------------------ Dashboard ------------------------------ *)
DashEntry == EntryOf(cache, DashKey(dash.selectedMonth))

\* the page returns early while isLoading and on isError || !data: the month
\* select is part of the content only
DashContent == DashEntry.hasData /\ DashEntry.status = "success"

\* onChange of the month select: the query of the month is read from the
\* cache and fetched unless its data is younger than staleTime
SelectMonth(m) ==
    /\ OnDashboard
    /\ DashContent
    /\ m \in Months /\ m # dash.selectedMonth
    /\ cache' = Observing(cache, DashKey(m))
    /\ WithinEntries(cache')
    /\ dash' = [selectedMonth |-> m,
                request |-> IF Starts(cache, DashKey(m))
                            THEN DashboardQueryFn(m) ELSE dash.request]
    /\ UNCHANGED <<backend, http, route, history, detail, modal, list, bar,
                   unobserved, alerted>>

\* GET /dashboard/stats of the selected month settles
DashboardResponse(netOk) ==
    /\ OnDashboard
    /\ QueryResponse(DashKey(dash.selectedMonth), netOk, 1)

(* ------------------------------ navigation ----------------------------- *)
\* a link of the Layout (navItems and the logo); an open Modal draws over the
\* links and leaves them in the tab order.  The link of the page shown
\* replaces the current entry: the page stays mounted as it is and the entry
\* gets a new location.key
FollowLink(page, m) ==
    /\ IF route.page = page
       THEN /\ history' = Replaced
            /\ UNCHANGED <<route, detail, modal, list, bar, dash, cache, unobserved>>
       ELSE /\ Navigate([page |-> page, id |-> 0], m, cache, detail, unobserved)
            /\ history' = Pushed
    /\ UNCHANGED <<backend, http, alerted>>

\* the Engagements link: the Orders page mounts and fetches
OpenOrders == FollowLink("orders", 0)
\* the Services link: the Products page mounts and fetches
OpenProducts == FollowLink("products", 0)
\* the Clients link: the Customers page mounts and fetches
OpenCustomers == FollowLink("customers", 0)
\* the Dashboard link and the logo: the page mounts on the current month
OpenDashboard(m) == FollowLink("dashboard", m)

\* a row of the Products / Customers table, and the links of the order page to
\* a service of the order and to its client
OpenDetail(kind, id) ==
    /\ \/ route.page = ListOf(kind) /\ id \in list.shown.rows
       \/ /\ OnOrderDetail /\ DetailContent
          /\ IF kind = "product" THEN id \in DetailEntry.data.rows
             ELSE id = DetailEntry.data.customer
    /\ Navigate([page |-> kind, id |-> id], 0, cache, detail, unobserved)
    /\ history' = Pushed
    /\ UNCHANGED <<backend, http, alerted>>

\* a row of the Orders table, and a row of Recent Engagements on the customer
\* page
OpenOrderDetail(o) ==
    /\ \/ OnOrders /\ o \in list.shown.rows
       \/ route.page = "customer" /\ DetailContent /\ o \in DetailEntry.data.rows
    /\ Navigate([page |-> "order", id |-> o], 0, cache, detail, unobserved)
    /\ history' = Pushed
    /\ UNCHANGED <<backend, http, alerted>>

BackRoute == IF route.page = "order" THEN "orders" ELSE ListOf(route.page)

\* DetailLayout.handleBack, the click on the arrow: navigate(-1) unless the
\* location.key is 'default', navigate(backRoute) then.  navigate(-1) only
\* asks for the traversal
HandleBack ==
    /\ OnDetail \/ OnOrderDetail
    /\ IF history.first
       THEN /\ Navigate([page |-> BackRoute, id |-> 0], 0, cache, detail, unobserved)
            /\ history' = Pushed
       ELSE /\ CanGo
            /\ history' = Going
            /\ UNCHANGED <<route, detail, modal, list, bar, dash, cache, unobserved>>
    /\ UNCHANGED <<backend, http, alerted>>

\* the back button of the browser, whatever covers the page: the traversal is
\* asked for
BrowserBack ==
    /\ CanGo
    /\ history' = Going
    /\ UNCHANGED <<backend, http, route, detail, modal, list, bar, dash, cache,
                   unobserved, alerted>>

\* popstate: a traversal that was asked for happens, from whatever entry is
\* the current one by now; the entry under it is shown, and an entry of the
\* route shown keeps the page mounted (m: the current month)
PopState(m) ==
    /\ history.going > 0
    /\ history.back # <<>>
    /\ history' = Popped
    /\ IF Previous.page = route.page /\ Previous.id = route.id
       THEN UNCHANGED <<route, detail, modal, list, bar, dash, cache, unobserved>>
       ELSE Navigate([page |-> Previous.page, id |-> Previous.id], m, cache,
                     detail, unobserved)
    /\ UNCHANGED <<backend, http, alerted>>
(* --------------------------- CreateOrderModal -------------------------- *)
RECURSIVE Without(_, _)
\* cart.filter(item => item.product.id !== productId)
Without(seq, x) ==
    IF seq = <<>> THEN <<>>
    ELSE IF Head(seq) = x THEN Without(Tail(seq), x)
    ELSE <<Head(seq)>> \o Without(Tail(seq), x)

\* isLoading of a query: pending and fetching
IsLoading(q) == q.status = "pending" /\ q.fetching

CustomersQuery == EntryOf(cache, PrefixKey("customers"))
ProductsQuery == EntryOf(cache, PrefixKey("products"))

\* `customers` and `products` of the component: the data of its queries,
\* an empty list while a query has none
CustomersData == CustomersQuery.data.rows
ProductsData == ProductsQuery.data.rows

FormRendered ==
    /\ ModalMounted
    /\ modal.isOpen
    /\ ~IsLoading(CustomersQuery) /\ ~IsLoading(ProductsQuery)

IsSubmittingOrSuccess ==
    \/ modal.create.status \in {"pending", "success"}
    \/ modal.update.status \in {"pending", "success"}

\* isOpen becomes true: both list queries of the modal are enabled
Enabled(c) == Observing(Observing(c, PrefixKey("customers")), PrefixKey("products"))

\* "New Engagement": setIsModalOpen(true), which changes nothing when the
\* modal is open already
OpenModal ==
    /\ OnOrders
    /\ modal' = [modal EXCEPT !.isOpen = TRUE]
    /\ cache' = IF modal.isOpen THEN cache ELSE Enabled(cache)
    /\ WithinEntries(cache')
    /\ UNCHANGED <<backend, http, route, history, detail, list, bar, dash,
                   unobserved, alerted>>

\* GET /customers?skip=0&limit=100 of the modal settles; only data and
\* isLoading are read from the query
CustomersQueryResponse(netOk) ==
    /\ ModalMounted
    /\ QueryResponse(PrefixKey("customers"), netOk, 1)

\* GET /products?skip=0&limit=100 of the modal settles; the select offers the
\* products with is_active
ProductsQueryResponse(netOk) ==
    /\ ModalMounted
    /\ QueryResponse(PrefixKey("products"), netOk, 1)

\* onChange of the client select
SelectCustomer(c) ==
    /\ FormRendered
    /\ ~IsSubmittingOrSuccess
    /\ c \in CustomersData \cup {0}
    /\ modal' = [modal EXCEPT !.customerId = c, !.error = "none"]
    /\ UNCHANGED <<backend, http, route, history, detail, list, bar, dash, cache,
                   unobserved, alerted>>

\* onChange of the service select
SelectProduct(p) ==
    /\ FormRendered
    /\ modal.customerId # 0 /\ ~IsSubmittingOrSuccess
    /\ p \in ProductsData \cup {0}
    /\ modal' = [modal EXCEPT !.currentProduct = p, !.error = "none"]
    /\ UNCHANGED <<backend, http, route, history, detail, list, bar, dash, cache,
                   unobserved, alerted>>

\* the selected service is appended without looking at the cart
AddToCartDuplicating ==
    /\ ModalMounted
    /\ modal' =
         IF modal.currentProduct = 0
         THEN [modal EXCEPT !.error = "Please select a service to add"]
         ELSE IF modal.currentProduct \notin ProductsData
         THEN [modal EXCEPT !.error = "Product not found"]
         ELSE [modal EXCEPT !.error = "none",
                            !.cart = Append(@, modal.currentProduct),
                            !.currentProduct = 0]
    /\ UNCHANGED <<backend, http, route, history, detail, list, bar, dash, cache,
                   unobserved, alerted>>

\* addToCart
AddToCart ==
    /\ ModalMounted
    /\ modal' =
         IF modal.currentProduct = 0
         THEN [modal EXCEPT !.error = "Please select a service to add"]
         ELSE IF modal.currentProduct \notin ProductsData
         THEN [modal EXCEPT !.error = "Product not found"]
         ELSE IF modal.currentProduct \in Range(modal.cart)
         THEN [modal EXCEPT !.error = "This service is already included in this engagement."]
         ELSE [modal EXCEPT !.error = "none",
                            !.cart = Append(@, modal.currentProduct),
                            !.currentProduct = 0]
    /\ UNCHANGED <<backend, http, route, history, detail, list, bar, dash, cache,
                   unobserved, alerted>>

\* the Add Service button
ClickAdd ==
    /\ FormRendered
    /\ modal.currentProduct # 0 /\ ~IsSubmittingOrSuccess
    /\ AddToCart

\* removeFromCart, from the Remove button of a cart row
RemoveFromCart(p) ==
    /\ FormRendered
    /\ p \in Range(modal.cart) /\ ~IsSubmittingOrSuccess
    /\ modal' = [modal EXCEPT !.cart = Without(@, p), !.error = "none"]
    /\ UNCHANGED <<backend, http, route, history, detail, list, bar, dash, cache,
                   unobserved, alerted>>

\* orderData of handleSubmit; `order` is the order updateOrderMutation sends
\* it for (isEditMode && initialData): the Orders page passes neither, which
\* is create mode, order 0
OrderData ==
    [order |-> 0,
     customer_id |-> modal.customerId, items |-> Range(modal.cart)]

\* a mutation whose observer was reset or moved on goes on unobserved
Orphaned(m) == IF m.inFlight THEN Append(m.orphans, m.payload) ELSE m.orphans

\* the requests of the model stay within its bounds
CanOrphan == modal.inFlight => Len(modal.orphans) < MaxOrphans
CanMutate == modal.issued < MaxIssued /\ CanOrphan

\* createOrderMutation.mutate(orderData) / updateOrderMutation.mutate(orderData)
Mutate(m, orderData) ==
    [m EXCEPT !.create = IF orderData.order = 0 THEN StartRequest ELSE @,
              !.update = IF orderData.order # 0 THEN StartRequest ELSE @,
              !.inFlight = TRUE, !.payload = orderData,
              !.orphans = Orphaned(m), !.issued = @ + 1]

\* the validation looks at the client only
HandleSubmitClientOnly ==
    /\ ModalMounted
    /\ modal.customerId # 0 => CanMutate
    /\ modal' =
         IF modal.customerId = 0
         THEN [modal EXCEPT
                 !.error = "Please select a client and add at least one service",
                 !.successMessage = "none"]
         ELSE Mutate([modal EXCEPT !.error = "none", !.successMessage = "none"],
                     OrderData)
    /\ UNCHANGED <<backend, http, route, history, detail, list, bar, dash, cache,
                   unobserved, alerted>>

\* handleSubmit
HandleSubmit ==
    /\ ModalMounted
    /\ (modal.customerId # 0 /\ Len(modal.cart) # 0) => CanMutate
    /\ modal' =
         IF modal.customerId = 0 \/ Len(modal.cart) = 0
         THEN [modal EXCEPT
                 !.error = "Please select a client and add at least one service",
                 !.successMessage = "none"]
         ELSE Mutate([modal EXCEPT !.error = "none", !.successMessage = "none"],
                     OrderData)
    /\ UNCHANGED <<backend, http, route, history, detail, list, bar, dash, cache,
                   unobserved, alerted>>

\* the button is disabled by the form alone
SubmitDisabledFormOnly ==
    modal.customerId = 0 \/ Len(modal.cart) = 0

SubmitDisabled ==
    modal.customerId = 0 \/ Len(modal.cart) = 0 \/ IsSubmittingOrSuccess

\* the Create Engagement / Save Changes button
ClickSubmit ==
    /\ FormRendered
    /\ ~SubmitDisabled
    /\ HandleSubmit

\* handleClose: reset the form (client and cart, as in create mode) and both
\* mutations, then onClose (setIsModalOpen(false) of the parent); a pending
\* request goes on unobserved and a scheduled close stays scheduled (stale:
\* scheduled for a session that is over)
Closed(m) ==
    [m EXCEPT !.customerId = 0,
              !.cart = <<>>,
              !.currentProduct = 0,
              !.error = "none", !.successMessage = "none",
              !.create = IdleSlot, !.update = IdleSlot, !.isOpen = FALSE,
              !.inFlight = FALSE, !.payload = NoPayload,
              !.orphans = Orphaned(m), !.issued = 0,
              !.stale = m.timer]

\* the X of the Modal, always enabled
HandleClose ==
    /\ ModalMounted
    /\ modal.isOpen
    /\ CanOrphan
    /\ modal' = Closed(modal)
    /\ UNCHANGED <<backend, http, route, history, detail, list, bar, dash, cache,
                   unobserved, alerted>>

\* the Cancel button
ClickCancel ==
    /\ FormRendered
    /\ ~IsSubmittingOrSuccess
    /\ HandleClose

\* the message is set and no close is scheduled
CreateOnSuccessUnscheduled(m, id) ==
    [m EXCEPT !.successMessage = "created successfully",
              !.create = IF @.status = "pending" THEN AfterSuccess(@) ELSE @,
              !.inFlight = FALSE, !.payload = NoPayload]

\* createOrderMutation.onSuccess: the message, and the close 1500 ms later
CreateOnSuccess(m, id) ==
    [m EXCEPT !.successMessage = "created successfully", !.timer = @ \cup {id},
              !.create = IF @.status = "pending" THEN AfterSuccess(@) ELSE @,
              !.inFlight = FALSE, !.payload = NoPayload]

\* createOrderMutation.onError: setError(message)
CreateOnError(m) ==
    [m EXCEPT !.error = "Failed to create order",
              !.create = IF @.status = "pending" THEN [@ EXCEPT !.status = "error"] ELSE @,
              !.inFlight = FALSE, !.payload = NoPayload]

\* POST /orders settles: orderService.createOrder resolves or throws
CreateResponse(netOk) ==
    /\ OnOrders
    /\ modal.inFlight
    /\ IF /\ netOk
          /\ nextOrderId <= MaxOrders
          /\ CreateOrderAccepted(modal.payload.customer_id, modal.payload.items)
       THEN /\ BackendCreateOrder(modal.payload.customer_id, modal.payload.items)
            /\ modal' = CreateOnSuccess(modal, nextOrderId)
       ELSE /\ BackendUnchanged
            /\ modal' = IF Resent(modal.create, MutationRetry)
                        THEN [modal EXCEPT !.create.sent = @ + 1]
                        ELSE CreateOnError(modal)
    /\ UNCHANGED <<http, route, history, detail, list, bar, dash, cache,
                   unobserved, alerted>>

\* POST /orders of a mutation no longer observed settles: onSuccess and
\* onError of createOrderMutation run, the state of the mutation shown to the
\* component is not touched
OrphanResponse(i, netOk) ==
    /\ OnOrders
    /\ i \in 1..Len(modal.orphans)
    /\ IF /\ netOk
          /\ nextOrderId <= MaxOrders
          /\ CreateOrderAccepted(modal.orphans[i].customer_id, modal.orphans[i].items)
       THEN /\ BackendCreateOrder(modal.orphans[i].customer_id, modal.orphans[i].items)
            /\ modal' = [modal EXCEPT !.successMessage = "created successfully",
                                      !.timer = @ \cup {nextOrderId},
                                      !.stale = @ \cup {nextOrderId},
                                      !.orphans = RemoveAt(@, i)]
       ELSE /\ BackendUnchanged
            /\ modal' = [modal EXCEPT !.error = "Failed to create order",
                                      !.orphans = RemoveAt(@, i)]
    /\ UNCHANGED <<http, route, history, detail, list, bar, dash, cache,
                   unobserved, alerted>>

\* onOrderCreated of the parent: Orders.handleOrderCreated closes the modal
\* and invalidates ['orders']
OnOrderCreated(c, id) == Invalidated(c, "orders", 0, ActiveKeys)

\* the 1500 ms timer: onOrderCreated(id), then handleClose; `notified` keeps
\* the calls of Orders.handleOrderCreated
TimerFires(id) ==
    /\ ModalMounted
    /\ id \in modal.timer
    /\ CanOrphan
    /\ modal' = [Closed(modal) EXCEPT !.timer = @ \ {id}, !.stale = @ \ {id},
                                      !.notified = Append(@, id)]
    /\ cache' = OnOrderCreated(cache, id)
    /\ list' = Rendered(list, cache')
    /\ UNCHANGED <<backend, http, route, history, detail, bar, dash, unobserved,
                   alerted>>

\* a POST of the modal settles after its page is gone: the back end applies
\* it, the state setters of the callbacks do nothing, the timer of onSuccess
\* is started all the same
UnobservedOrder(i, netOk) ==
    /\ i \in 1..Len(unobserved)
    /\ unobserved[i].op = "order"
    /\ IF /\ netOk
          /\ nextOrderId <= MaxOrders
          /\ CreateOrderAccepted(unobserved[i].payload.customer_id,
                                 unobserved[i].payload.items)
       THEN /\ BackendCreateOrder(unobserved[i].payload.customer_id,
                                  unobserved[i].payload.items)
            /\ unobserved' = Append(RemoveAt(unobserved, i),
                   Task("timer", unobserved[i].page, nextOrderId, NoData, NoPayload))
       ELSE /\ BackendUnchanged
            /\ unobserved' = RemoveAt(unobserved, i)
    /\ UNCHANGED <<http, route, history, detail, modal, list, bar, dash, cache,
                   alerted>>

\* the 1500 ms timer of a modal whose page is gone: onOrderCreated of that
\* page invalidates all the same, its state setters and handleClose do nothing
UnobservedTimer(i) ==
    /\ i \in 1..Len(unobserved)
    /\ unobserved[i].op = "timer"
    /\ unobserved' = RemoveAt(unobserved, i)
    /\ cache' = Invalidated(cache, "orders", 0, ActiveKeys)
    /\ list' = Rendered(list, cache')
    /\ UNCHANGED <<backend, http, route, history, detail, modal, bar, dash, alerted>>

(* ------------------------ other sessions of the back end --------------- *)
\* another session moves an order along its status chain
AdvanceElsewhere(o) ==
    /\ o \in DOMAIN orders
    /\ orders[o].status # "completed"
    /\ BackendUpdateStatus(o, NextStatus(orders[o].status))
    /\ UNCHANGED http /\ UNCHANGED ui

\* another session creates an order
CreateElsewhere(c, ps) ==
    /\ nextOrderId <= MaxOrders
    /\ CreateOrderAccepted(c, ps)
    /\ BackendCreateOrder(c, ps)
    /\ UNCHANGED http /\ UNCHANGED ui

\* another session changes the price of a service
RepriceElsewhere(p, price) ==
    /\ products[p].exists
    /\ products[p].price # price
    /\ BackendUpdateProduct(p, price, products[p].is_active)
    /\ UNCHANGED http /\ UNCHANGED ui

\* another session switches a service on or off
SetActiveElsewhere(p, active) ==
    /\ products[p].exists
    /\ products[p].is_active # active
    /\ products' = [products EXCEPT ![p].is_active = active]
    /\ UNCHANGED <<customers, orders, nextOrderId, nextId, http>> /\ UNCHANGED ui

(* ------------------------------ initial state -------------------------- *)
\* the routes a session is opened on: the four pages of the Layout and the
\* detail pages of the first customer, service and engagement
EntryRoutes ==
    {[page |-> p, id |-> 0] : p \in ListPages \cup {"dashboard"}}
    \cup {[page |-> p, id |-> 1] : p \in DetailPages \cup {"order"}}

\* the tables as seeded, and the page of the route the session is opened on
\* just mounted with the request of its query in flight
InitOn(routes) ==
    /\ customers = 1..NumCustomers
    /\ products = [p \in ProductIds |->
                     IF p <= NumProducts
                     THEN [exists |-> TRUE, price |-> 1, is_active |-> TRUE]
                     ELSE DeletedProduct]
    /\ orders = <<>>
    /\ nextOrderId = 1
    /\ nextId = [customer |-> NumCustomers + 1, product |-> NumProducts + 1]
    /\ http = NoExchange
    /\ history = NoHistory
    /\ detail = NoDetail
    /\ modal = ClosedModal
    /\ bar = NoBar
    /\ unobserved = <<>>
    /\ alerted = "none"
    /\ \E r \in routes, m \in CurrentMonths :
          /\ route = r
          /\ cache = Observing(NoCache, PageKeyOf(r, m))
          /\ list = Rendered(MountedList(r.page), cache)
          /\ dash = IF r.page = "dashboard"
                    THEN [selectedMonth |-> m, request |-> DashboardQueryFn(m)]
                    ELSE NoDash

Init == InitOn(EntryRoutes)

Home == [page |-> "dashboard", id |-> 0]
OrdersRoute == [page |-> "orders", id |-> 0]

(* ------------------------------ the REST API --------------------------- *)
\* the services called with any arguments, over the seeded tables
Next ==
    \/ \E c \in CustomerIds, ps \in SUBSET ProductIds, netOk \in BOOLEAN :
          CreateOrder(c, ps, netOk)
    \/ \E o \in OrderIds, s \in Statuses, netOk \in BOOLEAN : UpdateOrderStatus(o, s, netOk)
    \/ \E o \in OrderIds, ps \in SUBSET ProductIds, keep \in BOOLEAN,
          draftOnly \in BOOLEAN, netOk \in BOOLEAN :
          UpdateOrder(o, ps, keep, draftOnly, netOk)
    \/ \E o \in OrderIds, netOk \in BOOLEAN : DeleteOrder(o, netOk)
    \/ \E p \in ProductIds, price \in Prices, active \in BOOLEAN, netOk \in BOOLEAN :
          UpdateProduct(p, price, active, netOk)
    \/ \E p \in ProductIds, answer \in DeleteAnswers, netOk \in BOOLEAN :
          DeleteProduct(p, answer, netOk)
    \/ \E c \in CustomerIds, answer \in DeleteAnswers, netOk \in BOOLEAN :
          DeleteCustomer(c, answer, netOk)

Spec == InitOn({Home}) /\ [][Next]_vars

\* the services while the catalogue and the clients grow: rows are created,
\* put on orders and deleted
NextCatalog ==
    \/ \E price \in Prices, active \in BOOLEAN, netOk \in BOOLEAN :
          CreateProduct(price, active, netOk)
    \/ \E netOk \in BOOLEAN : CreateCustomer(netOk)
    \/ \E c \in CustomerIds, ps \in SUBSET ProductIds, netOk \in BOOLEAN :
          CreateOrder(c, ps, netOk)
    \/ \E o \in OrderIds, s \in Statuses, netOk \in BOOLEAN : UpdateOrderStatus(o, s, netOk)
    \/ \E o \in OrderIds, netOk \in BOOLEAN : DeleteOrder(o, netOk)
    \/ \E p \in ProductIds, answer \in DeleteAnswers, netOk \in BOOLEAN :
          DeleteProduct(p, answer, netOk)
    \/ \E c \in CustomerIds, answer \in DeleteAnswers, netOk \in BOOLEAN :
          DeleteCustomer(c, answer, netOk)

SpecCatalog == InitOn({Home}) /\ [][NextCatalog]_vars

(* ------------------------------ the sessions --------------------------- *)
\* the search terms, tabs and keys the sessions below move through
QueryTerms == {"", "acme"}
QueryStatuses == {"all", "draft"}
ListKeys ==
    {[resource |-> r, id |-> 0, searchTerm |-> t, page |-> p, statusFilter |-> f] :
        r \in ListPages, t \in Terms, p \in 1..MaxPage,
        f \in StatusFilters \cup Views \cup {Absent}}
QueryKeys ==
    {k \in ListKeys : /\ k.resource = "orders"
                      /\ k.searchTerm \in QueryTerms
                      /\ k.statusFilter \in QueryStatuses}
PageKeys ==
    {PrefixKey(r) : r \in {"customers", "products"}}
    \cup {DetailKey(kind, id) : kind \in DetailPages \cup {"order"},
                                id \in CustomerIds \cup ProductIds}
    \cup {DashKey(m) : m \in Months}
AllKeys == ListKeys \cup PageKeys
\* the keys of the three list pages under the terms and tabs above
SessionKeys ==
    {k \in ListKeys :
        /\ k.searchTerm \in QueryTerms
        /\ k.statusFilter = Absent => k.resource = "customers"
        /\ k.statusFilter \in StatusFilters => k.resource = "orders" /\ k.statusFilter \in QueryStatuses
        /\ k.statusFilter \in Views => k.resource = "products"}

Elsewhere ==
    \/ \E o \in OrderIds : AdvanceElsewhere(o)
    \/ \E c \in CustomerIds, ps \in SUBSET ProductIds : CreateElsewhere(c, ps)

\* the links of the Layout
LayoutLinks ==
    \/ OpenOrders
    \/ OpenProducts
    \/ OpenCustomers
    \/ \E m \in CurrentMonths : OpenDashboard(m)

\* leaving a detail page
BackActions ==
    \/ HandleBack
    \/ BrowserBack
    \/ \E m \in CurrentMonths : PopState(m)

\* the customer and product detail pages
DetailActions ==
    \/ \E kind \in DetailPages, id \in CustomerIds \cup ProductIds : OpenDetail(kind, id)
    \/ \E netOk \in BOOLEAN : DetailQueryResponse(netOk)
    \/ HandleDelete
    \/ \E netOk \in BOOLEAN, answer \in DeleteAnswers : DeleteResponse(netOk, answer)
    \/ OpenEdit
    \/ \E kind \in DetailPages : \E d \in UpdateData(kind) : HandleEditSubmit(d)
    \/ \E netOk \in BOOLEAN : UpdateResponse(netOk)
    \/ \E cancel \in BOOLEAN : CloseEdit(cancel)
    \/ \E i \in 1..MaxUnobserved, netOk \in BOOLEAN : UnobservedUpdate(i, netOk)
    \/ \E i \in 1..MaxUnobserved, netOk \in BOOLEAN, answer \in DeleteAnswers :
          UnobservedDelete(i, netOk, answer)

\* the order modal, driven through its controls
ModalActions ==
    \/ OpenModal
    \/ \E netOk \in BOOLEAN : CustomersQueryResponse(netOk)
    \/ \E netOk \in BOOLEAN : ProductsQueryResponse(netOk)
    \/ \E c \in CustomerIds \cup {0} : SelectCustomer(c)
    \/ \E p \in ProductIds \cup {0} : SelectProduct(p)
    \/ ClickAdd
    \/ \E p \in ProductIds : RemoveFromCart(p)
    \/ ClickSubmit
    \/ ClickCancel
    \/ HandleClose
    \/ \E netOk \in BOOLEAN : CreateResponse(netOk)
    \/ \E i \in 1..MaxOrphans, netOk \in BOOLEAN : OrphanResponse(i, netOk)
    \/ \E id \in OrderIds : TimerFires(id)

\* the search bar, the status tabs and the pagination of the Orders page
ListActions ==
    \/ \E term \in Terms : HandleSearch(term)
    \/ \E status \in StatusFilters : HandleStatusChange(status)
    \/ \E p \in 0..(MaxPage + 1) : SetPage(p)
    \/ \E netOk \in BOOLEAN, pages \in PageCounts : ListResponse(netOk, pages)

SearchActions ==
    \/ \E v \in Terms : SetValue(v)
    \/ ClearValue
    \/ PressEnter
    \/ DebounceFires

\* the Dashboard page, next to other sessions of the same back end
NextDash ==
    \/ \E m \in CurrentMonths : OpenDashboard(m)
    \/ \E m \in Months : SelectMonth(m)
    \/ \E netOk \in BOOLEAN : DashboardResponse(netOk)
    \/ \E m \in Months : Expire(DashKey(m))
    \/ \E m \in Months : Collect(DashKey(m))
    \/ OpenOrders
    \/ Elsewhere
SpecDash == InitOn({Home}) /\ [][NextDash]_vars

\* deleting on the detail pages, leaving them and coming back, next to other
\* sessions of the same back end
NextDetail ==
    \/ \E kind \in DetailPages, id \in CustomerIds \cup ProductIds : OpenDetail(kind, id)
    \/ \E netOk \in BOOLEAN : DetailQueryResponse(netOk)
    \/ HandleDelete
    \/ \E netOk \in BOOLEAN, answer \in DeleteAnswers : DeleteResponse(netOk, answer)
    \/ \E i \in 1..MaxUnobserved, netOk \in BOOLEAN, answer \in DeleteAnswers :
          UnobservedDelete(i, netOk, answer)
    \/ HandleBack
    \/ \E m \in CurrentMonths : PopState(m)
    \/ \E netOk \in BOOLEAN : ListResponse(netOk, 1)
    \/ CreateElsewhere(1, {1})
    \/ \E o \in OrderIds : AdvanceElsewhere(o)
SpecDetail ==
    InitOn({[page |-> "customer", id |-> 1], [page |-> "product", id |-> 1]})
       /\ [][NextDetail]_vars

\* the list of the Orders page
NextList == ListActions
SpecList == InitOn({OrdersRoute}) /\ [][NextList]_vars

\* the search bar, the tabs and the pagination of the Orders page
NextSearch ==
    \/ SearchActions
    \/ \E status \in QueryStatuses : HandleStatusChange(status)
    \/ \E p \in 0..(MaxPage + 1) : SetPage(p)
    \/ \E netOk \in BOOLEAN, pages \in PageCounts : ListResponse(netOk, pages)
SpecSearch == InitOn({OrdersRoute}) /\ [][NextSearch]_vars

\* the handlers of the three list pages
NextLists ==
    \/ \E term \in QueryTerms : HandleSearch(term)
    \/ \E status \in QueryStatuses : HandleStatusChange(status)
    \/ \E p \in 0..(MaxPage + 1) : SetPage(p)
    \/ \E netOk \in BOOLEAN, pages \in PageCounts : ListResponse(netOk, pages)
    \/ \E term \in QueryTerms : ProductsHandleSearch(term)
    \/ \E term \in QueryTerms : CustomersHandleSearch(term)
    \/ \E view \in Views : SetView(view)
    \/ \E p \in 0..(MaxPage + 1) : ProductsSetPage(p)
    \/ \E netOk \in BOOLEAN, pages \in PageCounts : ProductsListResponse(netOk, pages)
SpecLists == InitOn({[page |-> p, id |-> 0] : p \in ListPages}) /\ [][NextLists]_vars

\* the Orders list with the requests of every key it has moved through
NextQueries ==
    \/ \E term \in QueryTerms : HandleSearch(term)
    \/ \E status \in QueryStatuses : HandleStatusChange(status)
    \/ \E p \in 0..(MaxPage + 1) : SetPage(p)
    \/ \E key \in QueryKeys, netOk \in BOOLEAN, pages \in PageCounts :
          QueryResponse(key, netOk, pages)
    \/ \E key \in QueryKeys : Collect(key)
SpecQueries == InitOn({OrdersRoute}) /\ [][NextQueries]_vars

\* the order modal of the Orders page
NextOrders == ModalActions
SpecOrders == InitOn({OrdersRoute}) /\ [][NextOrders]_vars

\* the handlers of the order modal called directly, whatever the buttons allow
NextHandlers == ModalActions \/ HandleSubmit \/ AddToCart
SpecHandlers == InitOn({OrdersRoute}) /\ [][NextHandlers]_vars

\* filling the cart of the order modal while the catalogue changes under it
NextCart ==
    \/ OpenModal
    \/ CustomersQueryResponse(TRUE)
    \/ \E netOk \in BOOLEAN : ProductsQueryResponse(netOk)
    \/ \E c \in CustomerIds : SelectCustomer(c)
    \/ \E p \in ProductIds \cup {0} : SelectProduct(p)
    \/ ClickAdd
    \/ AddToCart
    \/ \E p \in ProductIds : RemoveFromCart(p)
    \/ ClickCancel
    \/ \E p \in ProductIds, active \in BOOLEAN : SetActiveElsewhere(p, active)
SpecCart == InitOn({OrdersRoute}) /\ [][NextCart]_vars

\* the create forms of the Products and Customers pages
FormActions ==
    \/ OpenForm
    \/ CloseForm
    \/ \E kind \in DetailPages : \E d \in UpdateData(kind) : SubmitForm(d)
    \/ \E i \in 1..MaxUnobserved, netOk \in BOOLEAN : FormResponse(i, netOk)

\* every kind of request of the front end: the lists, the order modal, the
\* mutations of the detail pages and the create forms
NextUI ==
    \/ \E netOk \in BOOLEAN : DetailQueryResponse(netOk)
    \/ HandleDelete
    \/ \E netOk \in BOOLEAN, answer \in DeleteAnswers : DeleteResponse(netOk, answer)
    \/ OpenEdit
    \/ \E kind \in DetailPages : \E d \in UpdateData(kind) : HandleEditSubmit(d)
    \/ \E netOk \in BOOLEAN : UpdateResponse(netOk)
    \/ \E cancel \in BOOLEAN : CloseEdit(cancel)
    \/ \E i \in 1..MaxUnobserved, netOk \in BOOLEAN : UnobservedUpdate(i, netOk)
    \/ OpenModal
    \/ CustomersQueryResponse(TRUE)
    \/ ProductsQueryResponse(TRUE)
    \/ \E c \in CustomerIds : SelectCustomer(c)
    \/ \E p \in ProductIds : SelectProduct(p)
    \/ ClickAdd
    \/ ClickSubmit
    \/ \E netOk \in BOOLEAN : CreateResponse(netOk)
    \/ \E id \in OrderIds : TimerFires(id)
    \/ FormActions
    \/ \E netOk \in BOOLEAN : ListResponse(netOk, 1)
SpecUI ==
    InitOn({OrdersRoute, [page |-> "customer", id |-> 1], [page |-> "product", id |-> 1]})
       /\ [][NextUI]_vars

\* one session across the pages: the links of the Layout, the rows of the
\* tables, the back buttons, whatever was left in flight
NextNav ==
    \/ LayoutLinks
    \/ BackActions
    \/ \E kind \in DetailPages, id \in CustomerIds \cup ProductIds : OpenDetail(kind, id)
    \/ \E o \in OrderIds : OpenOrderDetail(o)
    \/ \E netOk \in BOOLEAN : DetailQueryResponse(netOk)
    \/ \E netOk \in BOOLEAN : OrderQueryResponse(netOk)
    \/ \E netOk \in BOOLEAN : ListResponse(netOk, 1)
    \/ \E netOk \in BOOLEAN : DashboardResponse(netOk)
    \/ \E key \in PageKeys \cup SessionKeys : Collect(key)
    \/ CreateElsewhere(1, {1})
SpecNav == InitOn({Home}) /\ [][NextNav]_vars

\* the order modal of a page the user leaves: what was in flight and the
\* timers go on without the page
NextLeave ==
    \/ OpenModal
    \/ CustomersQueryResponse(TRUE)
    \/ ProductsQueryResponse(TRUE)
    \/ \E c \in CustomerIds : SelectCustomer(c)
    \/ \E p \in ProductIds : SelectProduct(p)
    \/ ClickAdd
    \/ ClickSubmit
    \/ HandleClose
    \/ \E netOk \in BOOLEAN : CreateResponse(netOk)
    \/ \E id \in OrderIds : TimerFires(id)
    \/ OpenProducts
    \/ \E netOk \in BOOLEAN : ListResponse(netOk, 1)
    \/ \E i \in 1..MaxUnobserved, netOk \in BOOLEAN : UnobservedOrder(i, netOk)
    \/ \E i \in 1..MaxUnobserved : UnobservedTimer(i)
SpecLeave == InitOn({OrdersRoute}) /\ [][NextLeave]_vars

(* ============================ the claims =============================== *)

\* the step just taken was the exchange `op` on entity `id`
Exchange(op, id) == http'.op = op /\ http'.id = id

\* C1: an order's status only advances along draft -> confirmed -> completed:
\* every accepted status update moves it to the immediate next status, and no
\* step of any kind moves a stored order's status backward or past a status.
C1_StatusChain ==
    [][\A o \in DOMAIN orders :
          /\ o \in DOMAIN orders' =>
                \/ orders'[o].status = orders[o].status
                \/ orders'[o].status = NextStatus(orders[o].status)
          /\ (Exchange("updateOrderStatus", o) /\ ~http'.threw) =>
                /\ o \in DOMAIN orders'
                /\ orders'[o].status = NextStatus(orders[o].status)
                /\ orders'[o].status = http'.arg]_vars

\* C1 witness: an accepted update has just completed an order
C1_Witness ==
    /\ http.op = "updateOrderStatus" /\ ~http.threw /\ http.arg = "completed"
    /\ http.id \in DOMAIN orders
    /\ orders[http.id].status = "completed"

\* C2: a status update that would take a draft order directly to completed is
\* rejected and leaves the order (status draft, items, total_amount) unchanged.
C2_SkipRejected ==
    [][\A o \in DOMAIN orders :
          (orders[o].status = "draft" /\ Exchange("updateOrderStatus", o)
              /\ http'.arg = "completed")
          => (http'.threw /\ orders' = orders)]_vars

\* C2 witness: a rejected draft -> completed update of an order with items
C2_Witness ==
    /\ http.op = "updateOrderStatus" /\ http.arg = "completed" /\ http.threw
    /\ http.id \in DOMAIN orders
    /\ orders[http.id].status = "draft"
    /\ orders[http.id].items # {}

\* C3: every stored order's total_amount is the sum of its items' unit_price.
C3_TotalIsSum ==
    \A o \in DOMAIN orders : orders[o].total_amount = SumUnitPrice(orders[o].items)

\* C3 witness: an order whose items were edited to two services of different price
C3_Witness ==
    /\ http.op = "updateOrder" /\ ~http.threw
    /\ http.id \in DOMAIN orders
    /\ \E i, j \in orders[http.id].items : i.unit_price # j.unit_price

\* C4: the unit_price of a new order's items is the product's price when the
\* order is created, and a later product update changes no stored order.
C4_PriceFrozen ==
    [][/\ \A o \in OrderIds :
            (Exchange("createOrder", o) /\ ~http'.threw) =>
                /\ o \in DOMAIN orders' \ DOMAIN orders
                /\ \A it \in orders'[o].items :
                      it.unit_price = products[it.product_id].price
       /\ (http'.op = "updateProduct") => orders' = orders]_vars

\* C4 witness: after a price update an item still carries the older price
C4_Witness ==
    /\ http.op = "updateProduct" /\ ~http.threw
    /\ \E o \in DOMAIN orders : \E it \in orders[o].items :
          /\ it.product_id = http.id
          /\ it.unit_price # products[http.id].price

\* C8: at the step a request fails, an error message is put in front of the
\* user: the alert of the detail page, the error text of the edit form or of
\* the order modal, the error banner of the list (rendered from isError).
C8_FailureSurfaced ==
    [][/\ (detail.del.status # "error" /\ detail'.del.status = "error")
            => alerted' # "none"
       /\ (detail.upd.status # "error" /\ detail'.upd.status = "error")
            => detail'.editError # "none"
       /\ (modal.create.status # "error" /\ modal'.create.status = "error")
            => modal'.error # "none"
       /\ (modal.update.status # "error" /\ modal'.update.status = "error")
            => modal'.error # "none"
       /\ \A key \in ModalKeys :
            (EntryOf(cache, key).status # "error" /\ EntryOf(cache', key).status = "error")
            => modal'.error # "none"]_vars

\* C9: every request of the Orders list carries skip = (page - 1) * PageSize
\* and limit = PageSize, the search term exactly when it is not empty and the
\* status exactly when the filter is not 'all'; the page is never below 1.
C9_ListParams ==
    /\ OnOrders => list.page >= 1 /\ KeyOf(list) \in DOMAIN cache
    /\ \A key \in DOMAIN cache :
         (key.resource = "orders" /\ IsListKey(key)) =>
            /\ cache[key].params.skip = (key.page - 1) * PageSize
            /\ cache[key].params.limit = PageSize
            /\ cache[key].params.search =
                  (IF key.searchTerm = "" THEN Absent ELSE key.searchTerm)
            /\ cache[key].params.status =
                  (IF key.statusFilter = "all" THEN Absent ELSE key.statusFilter)

\* C9 witness: page 2 of the orders matching a search term was requested
C9_Witness ==
    /\ OnOrders /\ list.page = 2 /\ list.searchTerm = "acme"
    /\ EntryOf(cache, KeyOf(list)).fetching
    /\ EntryOf(cache, KeyOf(list)).params.skip = PageSize
    /\ EntryOf(cache, KeyOf(list)).params.limit = PageSize
    /\ EntryOf(cache, KeyOf(list)).params.search = "acme"
    /\ EntryOf(cache, KeyOf(list)).params.status = Absent

ValidationError == "Please select a client and add at least one service"

\* C10: a create request starts only with a client selected and a cart that is
\* not empty, carrying that client and that cart; handleSubmit puts up the
\* validation error only when one of them is missing, and then starts no request.
C10_SubmitValidated ==
    [][/\ (modal'.issued > modal.issued)
            => /\ modal.customerId # 0 /\ Len(modal.cart) > 0
               /\ modal'.payload.order = 0
               /\ modal'.payload.customer_id = modal.customerId
               /\ modal'.payload.items = Range(modal.cart)
               /\ modal'.payload.items # {}
       /\ (modal'.error = ValidationError /\ modal.error # ValidationError)
            => /\ modal.customerId = 0 \/ Len(modal.cart) = 0
               /\ modal'.inFlight = modal.inFlight
               /\ modal'.orphans = modal.orphans
               /\ modal'.issued = modal.issued
               /\ modal'.create = modal.create
               /\ modal'.update = modal.update
               /\ orders' = orders]_vars

\* C10 witness: handleSubmit with a client and an empty cart has put up the
\* validation error and nothing is in flight
C10_Witness ==
    /\ OnOrders
    /\ modal.error = ValidationError
    /\ modal.customerId # 0 /\ modal.cart = <<>>
    /\ ~modal.inFlight /\ modal.create.status = "idle"
    /\ orders = <<>>

\* C11: in create mode a product enters the cart only from the list of
\* services the modal holds at that moment, and that list is the active
\* services of the fetch that loaded it.
C11_OnlyActiveAdded ==
    [][OnOrders =>
         /\ \A p \in Range(modal'.cart) \ Range(modal.cart) : p \in ProductsData
         /\ (ProductsData' # ProductsData)
               => \A p \in ProductsData' :
                     products[p].exists /\ products[p].is_active]_vars

\* C11 witness: a service in the cart was switched off after it was added
C11_Witness ==
    /\ OnOrders /\ modal.isOpen
    /\ ProductsQuery.status = "success" /\ ~ProductsQuery.fetching
    /\ \E p \in Range(modal.cart) :
          /\ ~products[p].is_active
          /\ p \notin ProductsData

\* C12: every step of the Dashboard page (mounting, changing the month, a
\* response arriving) leaves customers, products and orders as they are, and
\* every request the page builds is a GET of /dashboard/stats.
C12_DashboardReadOnly ==
    /\ []((OnDashboard /\ dash.request # NoRequest) =>
            dash.request.method = "GET" /\ dash.request.path = "/dashboard/stats")
    /\ [][(dash' # dash \/ (OnDashboard /\ cache' # cache)) =>
            /\ customers' = customers /\ products' = products
            /\ orders' = orders /\ nextOrderId' = nextOrderId]_vars

\* C12 witness: the whole year was selected and answered while an order stands
\* confirmed
C12_Witness ==
    /\ OnDashboard /\ dash.selectedMonth = 0 /\ dash.request.params = {}
    /\ DashEntry.status = "success" /\ ~DashEntry.fetching
    /\ DashEntry.data.stats.active_engagements = 1
    /\ \E o \in DOMAIN orders : orders[o].status = "confirmed"

\* C14: while a create request of the open modal is pending or has succeeded,
\* no step issues another request or changes the client or the cart, until
\* the modal closes; a failed request enables the controls again.
C14_NoDoubleSubmit ==
    [][(modal.isOpen /\ IsSubmittingOrSuccess) =>
          /\ modal'.issued <= modal.issued
          /\ modal'.isOpen => /\ modal'.cart = modal.cart
                              /\ modal'.customerId = modal.customerId]_vars

\* C14 witness: the second request of one session, issued after the first
\* failed, is pending
C14_Witness ==
    /\ modal.isOpen /\ modal.issued = 2
    /\ modal.create.status = "pending" /\ modal.orphans = <<>>

\* C14 as stated: at most one create request between the opening of the
\* modal and its next close
C14_Original == modal.isOpen => modal.issued <= 1

\* C15: the delayed close of a session that is over (closed with the X before
\* the 1500 ms passed) leaves the modal of a later session open and its client
\* and cart as entered.
C15_TimerOwnSession ==
    [][\A id \in modal.stale :
          (id \in modal.timer /\ id \notin modal'.timer /\ modal.isOpen) =>
             /\ modal'.isOpen
             /\ modal'.customerId = modal.customerId
             /\ modal'.cart = modal.cart]_vars

DuplicateError == "This service is already included in this engagement."

\* C16: in create mode the cart holds each product at most once; a product
\* enters it only when it is not in it, and the step that puts up the
\* duplicate error leaves the cart as it was.
C16_CartUnique ==
    /\ [](OnOrders =>
            \A i, j \in 1..Len(modal.cart) : modal.cart[i] = modal.cart[j] => i = j)
    /\ [][OnOrders =>
            /\ Len(modal'.cart) > Len(modal.cart)
                  => /\ modal.currentProduct \notin Range(modal.cart)
                     /\ modal'.cart = Append(modal.cart, modal.currentProduct)
            /\ (modal'.error = DuplicateError /\ modal' # modal)
                  => /\ modal.currentProduct \in Range(modal.cart)
                     /\ modal'.cart = modal.cart]_vars

\* C16 witness: with both services in the cart, adding one of them again put
\* up the error
C16_Witness ==
    /\ OnOrders /\ modal.isOpen /\ modal.error = DuplicateError
    /\ Len(modal.cart) = 2
    /\ modal.currentProduct \in Range(modal.cart)

\* C17: a create that succeeds schedules onOrderCreated with the id of the
\* created order; a scheduled call is made once, and the step that makes it
\* resets and closes the modal; a create that fails schedules and makes no
\* call and leaves client and cart as they were.
C17_OnOrderCreated ==
    /\ [](/\ modal.timer \cap Range(modal.notified) = {}
          /\ \A i, j \in 1..Len(modal.notified) :
                modal.notified[i] = modal.notified[j] => i = j
          /\ modal.timer \cup Range(modal.notified) \subseteq DOMAIN orders)
    /\ [][/\ (modal.create.status = "pending" /\ modal'.create.status = "success")
               => /\ nextOrderId \in DOMAIN orders' \ DOMAIN orders
                  /\ modal'.timer = modal.timer \cup {nextOrderId}
                  /\ modal'.notified = modal.notified
          /\ \A id \in modal.timer \ modal'.timer :
                  /\ modal'.notified = Append(modal.notified, id)
                  /\ ~modal'.isOpen
                  /\ modal'.customerId = 0 /\ modal'.cart = <<>>
                  /\ modal'.create = IdleSlot
          /\ (modal'.notified # modal.notified)
               => \E id \in modal.timer : modal'.notified = Append(modal.notified, id)
          /\ (modal.create.status = "pending" /\ modal'.create.status = "error")
               => /\ modal'.timer = modal.timer
                  /\ modal'.notified = modal.notified
                  /\ modal'.customerId = modal.customerId
                  /\ modal'.cart = modal.cart
                  /\ orders' = orders]_vars

\* C17 witness: the call for order 1 has been made, the modal is closed and
\* reset and the list is fetched again
C17_Witness ==
    /\ OnOrders
    /\ modal.notified = <<1>> /\ 1 \in DOMAIN orders
    /\ ~modal.isOpen /\ modal.customerId = 0 /\ modal.cart = <<>>
    /\ modal.timer = {} /\ modal.create = IdleSlot
    /\ EntryOf(cache, KeyOf(list)).fetching

\* C18: at most one timer of the debounce is pending and it holds the current
\* value; a change of the value leaves exactly the timer of the new value; a
\* timer that runs out searches for the value the input still has.
C18_Debounce ==
    /\ [](/\ Len(bar.timers) <= 1
          /\ \A i \in 1..Len(bar.timers) : bar.timers[i] = bar.value)
    /\ [][/\ (bar'.value # bar.value /\ route' = route)
               => bar'.timers = <<bar'.value>>
          /\ (bar'.timers # bar.timers /\ bar'.value = bar.value /\ route' = route)
               => /\ bar.timers = <<bar.value>> /\ bar'.timers = <<>>
                  /\ list'.searchTerm = bar.value
                  /\ list'.page = 1 /\ list'.statusFilter = "all"]_vars

\* C18 witness: the search for "42" was made by its timer, and the timer of
\* the value typed next is pending
C18_Witness ==
    /\ list.searchTerm = "42" /\ EntryOf(cache, KeyOf(list)).params.search = "42"
    /\ bar.value = "acme" /\ bar.timers = <<"acme">> /\ ~bar.entered

\* C19: once Enter has searched for the value of the input, no timer of the
\* debounce searches for it again: the page and the tab chosen after Enter
\* stay as chosen.
C19_EnterOnce ==
    [][(/\ bar.entered /\ route' = route
        /\ bar'.value = bar.value /\ bar'.timers # bar.timers)
          => /\ list'.page = list.page
             /\ list'.statusFilter = list.statusFilter]_vars

\* the list is on page 1 and the request of its key starts at skip 0
OnFirstPage == list'.page = 1 /\ EntryOf(cache', KeyOf(list')).params.skip = 0

\* C20: every search submission (handleSearch of a page, which is the onSearch
\* of its SearchBar) leaves the list on page 1, on the Orders page with the tab
\* 'all' too; every change of a status tab or of the active/inactive tab
\* leaves it on page 1; a request these steps start is for skip 0.
C20_PageReset ==
    [][/\ (\E term \in Terms : HandleSearch(term))
            => OnFirstPage /\ list'.statusFilter = "all"
       /\ (\E status \in StatusFilters : HandleStatusChange(status))
            => OnFirstPage
       /\ (\E term \in Terms : ProductsHandleSearch(term))
            => OnFirstPage /\ list'.statusFilter = list.statusFilter
       /\ (\E term \in Terms : CustomersHandleSearch(term))
            => OnFirstPage
       /\ (\E view \in Views : SetView(view))
            => OnFirstPage
       /\ (/\ route' = route /\ OnList
           /\ (list'.searchTerm # list.searchTerm \/ list'.statusFilter # list.statusFilter))
            => OnFirstPage]_vars

\* C20 witness: the Draft tab was chosen on page 2 and the request of the list
\* is for the first page
C20_Witness ==
    /\ OnOrders /\ list.statusFilter = "draft"
    /\ list.page = 1 /\ EntryOf(cache, KeyOf(list)).fetching
    /\ EntryOf(cache, KeyOf(list)).params = GetOrdersParams(0, PageSize, "", "draft")
    /\ list.last.page = 2 /\ list.last.statusFilter = "all"

\* C21: the Table renders the data of the current (search, page, status) key
\* whenever that key has data, and nothing when every request has completed
\* and the request of the current key failed; a response that arrives for an
\* older key, in whatever order, does not replace the data of the current key
\* once the Table renders it (the rows of a query the cache dropped, kept as a
\* placeholder, do go away when the request of the key fails).
C21_CurrentShown ==
    /\ [](OnList =>
            /\ EntryOf(cache, KeyOf(list)).hasData =>
                  /\ list.shown = ShownOf(KeyOf(list), EntryOf(cache, KeyOf(list)))
                  /\ ~list.placeholder
            /\ ((\A k \in DOMAIN cache : ~cache[k].fetching)
                   /\ ~EntryOf(cache, KeyOf(list)).hasData)
                  => list.shown = NoShown)
    /\ [][(KeyOf(list') = KeyOf(list) /\ list.shown.key = KeyOf(list)
               /\ ~list.placeholder)
             => (list'.shown.key = KeyOf(list) /\ ~list'.placeholder)]_vars

\* C21 witness: the data of the current key is rendered after its response
\* arrived while the requests of two older keys are still in flight
C21_Witness ==
    /\ OnOrders /\ list.shown.key = KeyOf(list)
    /\ ~EntryOf(cache, KeyOf(list)).fetching
    /\ Cardinality({k \in DOMAIN cache : cache[k].fetching /\ ~cache[k].hasData}) = 2
====
